---- MODULE Spec2Model ----
(***************************************************************************)
(* Model of the adaptive concurrent extraction engine:                     *)
(*   - APIRotator (cross_validator.py): credential rotation, blacklist     *)
(*   - CrossValidator._rotated_api_call: retrying call through the rotator *)
(*   - CrossValidator page-range planning and the worker/task-queue        *)
(*     executor of _extract_pdf_pages_concurrent                           *)
(*   - SmartCacheManager (cache_manager.py): memory / remote / disk tiers  *)
(* Credentials are identified by their index in api_keys (0-based, as in   *)
(* the code's current_index arithmetic); the list holds distinct keys.     *)
(***************************************************************************)
EXTENDS Integers, Sequences, FiniteSets, TLC

\* ------------------------------------------------------------------ bounds
\* largest number of configured credentials (len(api_keys))
MaxKeys == 3
\* cap on a credential's error counter (unbounded in the code)
MaxErrCount == 4
\* threads that issue _rotated_api_call concurrently, outside the executor
NumCallers == 2
\* smallest pool on which a retry can change the credential
RetryMinKeys == 2
\* largest number of page-range tasks handed to the executor
MaxTasks == 2
\* largest number of credentials behind the executor's worker threads
MaxExecKeys == 1
\* largest page count of a PDF
MaxPages == 30
\* largest source file, in MB
MaxFileSizeMB == 11
\* changes made to the source files during a run
MaxEdits == 1
\* the clock runs from hour 0 to this hour
MaxTime == 2
\* set and get calls during a run
MaxOps == 3
\* max_memory_items of the managers whose memory tier starts full
FullMemorySmall == 4
FullMemoryLarge == 8
\* max_disk_size_mb of the manager whose cache directory starts filled,
\* and the largest number of cache files it starts with
EvictMaxDiskSizeMB == 5
MaxDiskFiles == 3
\* pages of the longest document whose ranges are assembled
MaxAsmPages == 31
\* characters of text the API returns for a page of an ordinary document
CharsPerPage == 50000
\* length of the document's file name
FilenameLen == 5
\* files of one size class in a material
MaxFilesPerClass == 2
\* materials that have files
MaxMaterials == 3
\* largest number of configured credentials when sizing the worker pools
MaxPoolKeys == 17

\* error_count threshold at which report_error blacklists a credential
BlacklistThreshold == 3

\* max_retries of _rotated_api_call: its default and what the page-range
\* and direct-transfer call sites pass
DefaultMaxRetries == 3
PageRangeMaxRetries == 2
DirectTransferMaxRetries == 1
\* longest sleep of _rotated_api_call after a rate-limit error, in seconds
MaxBackoff == 60
\* cap on the worker threads of _extract_pdf_pages_concurrent
MaxWorkerThreads == 12
\* _extract_pdf_with_ai splits only above this page count
SplitPageThreshold == 8
\* _extract_pdf_with_concurrent_pages: tasks per credential, smallest and
\* largest chunk size
ChunksPerApi == 2
MinChunkSize == 2
MaxChunkSize == 6
\* _get_file_hash hashes a file whole up to this size, in MB
HashThresholdMB == 10
\* the max_age_hours argument of the SmartCacheManager under study
max_age_hours == 1
\* the default of the max_disk_size_mb argument
DefaultMaxDiskSizeMB == 1000

NoKey == 0 - 1
NoTask == 0 - 1

VARIABLES
    nkeys,      \* len(self.api_keys)
    rot,        \* APIRotator state: current_index, error_count, blacklisted
    last,       \* history: the last rotator operation and what it saw
    hist,       \* history: keys returned since the blacklist last changed
    heal,       \* history: per blacklisted key, its counter after the last
                \*          report_error and the report_success calls since
    observe,    \* which history is kept in this run: "ops" (last),
                \*          "heal" (heal), "order" (hist), "retry" (the
                \*          used, err and slept of the threads), "evict"
                \*          (what a set evicted), "tiers" (what failed
                \*          inside a set or get), "late" (the futures
                \*          that finished after the timeout), "stats"
                \*          (the number of get calls) or "none"
    w,          \* per thread: position in worker_thread / _rotated_api_call
    page_ranges,     \* the page_ranges argument: sequence of <<start, end>>
    task_queue,      \* queue.Queue of task ids (index into page_ranges)
    unfinished,      \* task_queue.unfinished_tasks, what join() waits on
    results,         \* results dict: task id -> (start_page, content)
    processed_tasks, \* set of task ids already claimed
    exec_count,      \* history: per task id, how often it was executed
    phase,           \* coordinator: "idle", "running" or "assembling"
    doc,             \* the PDF last given to _extract_pdf_with_ai
    strategy,        \* how _extract_pdf_with_ai processed it
    files,           \* the source files: stat and bytes, per path
    edits,           \* history: number of changes made to the source files
    backup,          \* the source files as they were at the start
    now,             \* time.time(), in hours
    redis_on,        \* self.redis_client is not None
    config,          \* the constructor arguments of the SmartCacheManager
                     \*          and, as history, the set and get calls
                     \*          made before the run
    memory_cache,    \* self.memory_cache, in insertion order
    redis_store,     \* the remote tier: key -> entry and when it was set
    disk,            \* the cache directory: key -> entry and file mtime
    stats,           \* self.stats
    rt,              \* history: the last set and the get that followed it
    pdf_text,        \* what the API returns for the pages of the PDF
    arrival,         \* the task ids of results, in the order they were put
    combined,        \* what _extract_pdf_pages_concurrent returns
    truncated,       \* a call of _smart_truncate_content: its arguments,
                     \*          its result and the result of a second call
    locking,         \* self.lock of the APIRotator and what it guards
                     \*          beside rot: usage_count, success_count,
                     \*          and the threads inside the three methods
    wrapper,         \* _extract_single_file_content_wrapper: the files of
                     \*          the material and what is made of them
    groups,          \* per material id: the group it was put in, or "none"
    materials,       \* self.materials[mid].content, by its kind
    futures,         \* per material id: the state of its future
    yielded,         \* the futures as_completed has handed out
    unfinished_futures, \* the set of that name
    total_processed, \* the counter of that name
    counted,         \* history: per material id, how often it was counted
    group_index,     \* position in all_material_groups, from 1
    main             \* where process_materials_from_zip stands

poolVars == <<nkeys, rot, last, hist, heal, observe>>
histVars == <<last, hist, heal, observe>>
execVars == <<page_ranges, task_queue, unfinished, results, processed_tasks,
              exec_count, phase>>
planVars == <<doc, strategy>>
cacheVars == <<files, edits, backup, now, redis_on, config, memory_cache,
               redis_store, disk, stats,
               rt>>
asmVars == <<pdf_text, arrival, combined, truncated, locking>>
\* what the rotator, the planner and the cache never touch
phaseVars == <<groups, materials, futures, yielded, unfinished_futures,
               total_processed, counted, group_index, main>>
afterAsmVars == <<wrapper, phaseVars>>
otherVars == <<asmVars, afterAsmVars>>
\* what the rotator, the callers and the executor never touch
outsideVars == <<doc, strategy, files, edits, backup, now,
          redis_on, config, memory_cache,
                 redis_store, disk, stats, rt, otherVars>>
vars == <<nkeys, rot, last, hist, heal, observe, w, page_ranges, task_queue,
          unfinished, results, processed_tasks, exec_count, phase,
          doc, strategy, files, edits, backup, now,
          redis_on, config, memory_cache, redis_store,
          disk, stats, rt, pdf_text, arrival, combined, truncated,
          locking,
          wrapper,
          groups, materials, futures, yielded, unfinished_futures,
          total_processed, counted, group_index, main>>

Keys == 0 .. (nkeys - 1)

\* the max_memory_items and max_disk_size_mb arguments of the
\* SmartCacheManager under study
max_memory_items == config.max_memory_items
max_disk_size_mb == config.max_disk_size_mb

\* a manager with room for one entry in memory and 2 MB of cache files
SmallConfig ==
    [max_memory_items |-> 1, max_disk_size_mb |-> 2, ops_before |-> 0]

Max2(a, b) == IF a >= b THEN a ELSE b
Min2(a, b) == IF a <= b THEN a ELSE b
MinOf(S) == CHOOSE x \in S : \A y \in S : x <= y

\* ------------------------------------------------------------ APIRotator
\* APIRotator.__init__: cursor 0, all counters 0, empty blacklist
RotatorInit(n) ==
    [current_index |-> 0,
     error_count   |-> [k \in 0 .. (n - 1) |-> 0],
     blacklisted   |-> {}]

\* the while loop of get_next_client: scan from the cursor to the next
\* index that is available; available_indices[0] when the scan wraps around
RECURSIVE ScanFrom(_, _, _, _)
ScanFrom(next_index, available_indices, current_index, n) ==
    IF next_index \in available_indices
    THEN next_index
    ELSE LET nx == (next_index + 1) % n
         IN  IF nx = current_index
             THEN MinOf(available_indices)
             ELSE ScanFrom(nx, available_indices, current_index, n)

\* get_next_client that hands out the key at the cursor without advancing it
GetNextClient_NoAdvance(p, n) ==
    LET all        == 0 .. (n - 1)
        available0 == {k \in all : k \notin p.blacklisted}
        reset      == available0 = {}
        available  == IF reset THEN all ELSE available0
    IN  [rot   |-> [current_index |-> p.current_index,
                    error_count   |-> IF reset THEN [k \in all |-> 0]
                                      ELSE p.error_count,
                    blacklisted   |-> IF reset THEN {} ELSE p.blacklisted],
         key   |-> ScanFrom(p.current_index, available, p.current_index, n),
         reset |-> reset]

\* get_next_client whose reset clears the blacklist but keeps the counters
GetNextClient_KeepCounts(p, n) ==
    LET all        == 0 .. (n - 1)
        available0 == {k \in all : k \notin p.blacklisted}
        reset      == available0 = {}
        available  == IF reset THEN all ELSE available0
        next_index == IF Cardinality(available) = 1
                      THEN MinOf(available)
                      ELSE ScanFrom(p.current_index, available,
                                    p.current_index, n)
    IN  [rot   |-> [current_index |-> IF Cardinality(available) = 1
                                      THEN p.current_index
                                      ELSE (next_index + 1) % n,
                    error_count   |-> p.error_count,
                    blacklisted   |-> IF reset THEN {} ELSE p.blacklisted],
         key   |-> next_index,
         reset |-> reset]

\* APIRotator.get_next_client on rotator state p with n keys:
\* the new rotator state, the selected key and whether the blacklist was reset
GetNextClient(p, n) ==
    LET all        == 0 .. (n - 1)
        available0 == {k \in all : k \notin p.blacklisted}
        reset      == available0 = {}
        bl         == IF reset THEN {} ELSE p.blacklisted
        ec         == IF reset THEN [k \in all |-> 0] ELSE p.error_count
        available  == IF reset THEN all ELSE available0
    IN  IF Cardinality(available) = 1
        THEN [rot   |-> [current_index |-> p.current_index,
                         error_count   |-> ec,
                         blacklisted   |-> bl],
              key   |-> MinOf(available),
              reset |-> reset]
        ELSE LET next_index == ScanFrom(p.current_index, available,
                                        p.current_index, n)
             IN  [rot   |-> [current_index |-> (next_index + 1) % n,
                             error_count   |-> ec,
                             blacklisted   |-> bl],
                  key   |-> next_index,
                  reset |-> reset]

\* report_error that blacklists only above the threshold
ReportError_Late(p, k) ==
    LET c == p.error_count[k] + 1
    IN  [current_index |-> p.current_index,
         error_count   |-> [p.error_count EXCEPT ![k] = c],
         blacklisted   |-> IF c > BlacklistThreshold
                           THEN p.blacklisted \cup {k}
                           ELSE p.blacklisted]

\* APIRotator.report_error
ReportError(p, k) ==
    LET c == p.error_count[k] + 1
    IN  [current_index |-> p.current_index,
         error_count   |-> [p.error_count EXCEPT ![k] = c],
         blacklisted   |-> IF c >= BlacklistThreshold
                           THEN p.blacklisted \cup {k}
                           ELSE p.blacklisted]

\* report_success that takes the key off the blacklist whatever its counter
ReportSuccess_Unlist(p, k) ==
    LET c == IF p.error_count[k] > 0
             THEN Max2(0, p.error_count[k] - 1)
             ELSE p.error_count[k]
    IN  [current_index |-> p.current_index,
         error_count   |-> [p.error_count EXCEPT ![k] = c],
         blacklisted   |-> p.blacklisted \ {k}]

\* report_success that clears the counter at once
ReportSuccess_Clear(p, k) ==
    [current_index |-> p.current_index,
     error_count   |-> [p.error_count EXCEPT ![k] = 0],
     blacklisted   |-> p.blacklisted \ {k}]

\* APIRotator.report_success (the latency statistics are not modelled)
ReportSuccess(p, k) ==
    LET c == IF p.error_count[k] > 0
             THEN Max2(0, p.error_count[k] - 1)
             ELSE p.error_count[k]
    IN  [current_index |-> p.current_index,
         error_count   |-> [p.error_count EXCEPT ![k] = c],
         blacklisted   |-> IF c = 0 /\ k \in p.blacklisted
                           THEN p.blacklisted \ {k}
                           ELSE p.blacklisted]

\* ------------------------------------------------- history book-keeping
NoOp == [op |-> "none", key |-> NoKey, before |-> 0, wasbl |-> FALSE,
         reset |-> FALSE, cursor |-> 0]

HealInit(n) == [k \in 0 .. (n - 1) |-> [at_err |-> 0, since |-> 0]]

\* keep the previous and the latest returned key
Push(h, k) == IF h = <<>> THEN <<k>> ELSE <<h[Len(h)], k>>

\* ------------------------------------------------------ rotator actions
\* the history a run keeps: the operation just done, the order of returns
NoteOp(rec) == last' = IF observe = "ops" THEN rec ELSE last
NoteHeal(h) == heal' = IF observe = "heal" THEN h ELSE heal
NoteOrder(h) == hist' = IF observe = "order" THEN h ELSE hist

\* a caller acquires a credential
Acquire ==
    LET r == GetNextClient(rot, nkeys)
    IN  /\ rot' = r.rot
        /\ NoteOp([op |-> "get", key |-> r.key, before |-> 0,
                   wasbl |-> FALSE, reset |-> r.reset,
                   cursor |-> IF r.reset THEN rot.current_index ELSE 0])
        /\ NoteOrder(IF r.rot.blacklisted = rot.blacklisted
                     THEN Push(hist, r.key)
                     ELSE <<r.key>>)
        /\ NoteHeal(IF r.reset THEN HealInit(nkeys) ELSE heal)
        /\ UNCHANGED <<nkeys, observe, w>>
        /\ UNCHANGED execVars
        /\ UNCHANGED outsideVars

\* a caller reports a failure of credential k
Fail(k) ==
    /\ rot.error_count[k] < MaxErrCount
    /\ rot' = ReportError(rot, k)
    /\ NoteOp([op |-> "error", key |-> k, before |-> rot.error_count[k],
               wasbl |-> FALSE, reset |-> FALSE, cursor |-> 0])
    /\ NoteOrder(IF rot'.blacklisted = rot.blacklisted THEN hist ELSE <<>>)
    /\ NoteHeal([heal EXCEPT ![k] = IF k \in rot'.blacklisted
                                    THEN [at_err |-> rot'.error_count[k],
                                          since |-> 0]
                                    ELSE [at_err |-> 0, since |-> 0]])
    /\ UNCHANGED <<nkeys, observe, w>>
    /\ UNCHANGED execVars
    /\ UNCHANGED outsideVars

\* a caller reports a success of credential k
Succeed(k) ==
    /\ rot' = ReportSuccess(rot, k)
    /\ NoteOp([op |-> "success", key |-> k, before |-> rot.error_count[k],
               wasbl |-> k \in rot.blacklisted, reset |-> FALSE,
               cursor |-> 0])
    /\ NoteOrder(IF rot'.blacklisted = rot.blacklisted THEN hist ELSE <<>>)
    /\ NoteHeal([heal EXCEPT ![k] = IF k \in rot'.blacklisted
                                    THEN [at_err |-> @.at_err,
                                          since |-> @.since + 1]
                                    ELSE [at_err |-> 0, since |-> 0]])
    /\ UNCHANGED <<nkeys, observe, w>>
    /\ UNCHANGED execVars
    /\ UNCHANGED outsideVars

\* ------------------------------------------------ _rotated_api_call
\* a thread that is not inside _rotated_api_call
\* calls and failed count the call_func invocations of the current
\* _rotated_api_call and how many of them raised; used, err and slept are
\* the local api_key of the attempt that raised, the branch its message
\* selected and the seconds slept after it, kept for the observed thread
Thread(pc) == [pc |-> pc, task |-> NoTask, attempt |-> 0, key |-> NoKey,
               max_retries |-> 0, out |-> "none", calls |-> 0,
               failed |-> 0, used |-> NoKey, err |-> "none", slept |-> 0]

\* the thread whose failed attempts are remembered when observe = "retry":
\* the first one; the others are the threads it shares the pool with
Observed(i) == observe = "retry" /\ \A j \in DOMAIN w : i <= j

\* lines 294-305: the branch the message of the exception selects; the
\* rate-limit keywords are looked for first
ErrorBranches == {"rate_limit", "invalid_key", "other"}

RECURSIVE Pow2(_)
Pow2(n) == IF n = 0 THEN 1 ELSE 2 * Pow2(n - 1)

\* lines 297-305: the whole seconds slept after a failed attempt; the
\* rate-limit wait is 2^attempt * (1 + random.uniform(0, 0.5)), at most 60
BackoffWaits(err, attempt) ==
    CASE err = "rate_limit" ->
           {Min2(s, MaxBackoff) :
                s \in Pow2(attempt) .. ((3 * Pow2(attempt)) \div 2)}
      [] err = "invalid_key" -> {0}
      [] OTHER -> {Pow2(attempt)}

\* what the thread does when _rotated_api_call returns or raises:
\* a free-standing caller is done with the call; a page-range worker is in
\* _extract_single_page_range, which turns the outcome into the content
\* it returns (text, cached text or a failure marker)
AfterCall(t, outcome) ==
    IF t.task = NoTask
    THEN Thread("ready")
    ELSE [t EXCEPT !.pc = "store", !.out = outcome, !.key = NoKey,
                   !.used = NoKey, !.err = "none", !.slept = 0]

\* lines 254-265: the attempt takes the next credential from the rotator
\* and invokes call_func with its client
RC_Acquire(i) ==
    /\ w[i].pc = "acquire"
    /\ LET r == GetNextClient(rot, nkeys)
       IN  /\ rot' = r.rot
           /\ w' = [w EXCEPT ![i].pc = "call", ![i].key = r.key,
                             ![i].calls = @ + 1, ![i].used = NoKey,
                             ![i].err = "none", ![i].slept = 0]
    /\ UNCHANGED <<nkeys, last, hist, heal, observe>>
    /\ UNCHANGED execVars
    /\ UNCHANGED outsideVars

\* lines 265-278: call_func returns; success is reported for the credential
\* the attempt used. The response carries text, or it is empty and
\* _extract_single_page_range returns its failure marker.
RC_Success(i) ==
    /\ w[i].pc = "call"
    /\ rot' = ReportSuccess(rot, w[i].key)
    /\ \E outcome \in {"text", "fail_marker"} :
          w' = [w EXCEPT ![i] = AfterCall(w[i], outcome)]
    /\ UNCHANGED <<nkeys, last, hist, heal, observe>>
    /\ UNCHANGED execVars
    /\ UNCHANGED outsideVars

\* lines 280-287: call_func raises; the handler asks the rotator for a
\* client again and takes the key it returns as the one to blame
RC_CallFails(i) ==
    /\ w[i].pc = "call"
    /\ LET r == GetNextClient(rot, nkeys)
       IN  /\ r.rot.error_count[r.key] < MaxErrCount
           /\ rot' = r.rot
           /\ w' = [w EXCEPT ![i].pc = "report", ![i].key = r.key,
                             ![i].failed = @ + 1,
                             ![i].used = IF Observed(i)
                                         THEN w[i].key ELSE NoKey]
    /\ UNCHANGED <<nkeys, last, hist, heal, observe>>
    /\ UNCHANGED execVars
    /\ UNCHANGED outsideVars

\* a loop that makes one attempt more than max_retries
RC_ReportError_OneMore(i) ==
    /\ w[i].pc = "report"
    /\ rot.error_count[w[i].key] < MaxErrCount
    /\ rot' = ReportError(rot, w[i].key)
    /\ w' = [w EXCEPT ![i] =
                IF w[i].attempt + 1 <= w[i].max_retries
                THEN [w[i] EXCEPT !.pc = "acquire", !.key = NoKey,
                                  !.attempt = @ + 1]
                ELSE AfterCall(w[i], "fail_marker")]
    /\ UNCHANGED <<nkeys, last, hist, heal, observe>>
    /\ UNCHANGED execVars
    /\ UNCHANGED outsideVars

\* lines 288-308: report_error for that key, the branch the message of
\* the exception selects and its sleep, the next attempt; after the last
\* attempt the exception is raised
RC_ReportError(i) ==
    /\ w[i].pc = "report"
    /\ rot.error_count[w[i].key] < MaxErrCount
    /\ rot' = ReportError(rot, w[i].key)
    /\ \E branch \in ErrorBranches :
       \E s \in BackoffWaits(branch, w[i].attempt) :
          w' = [w EXCEPT ![i] =
                  IF w[i].attempt + 1 < w[i].max_retries
                  THEN [w[i] EXCEPT !.pc = "acquire", !.key = NoKey,
                                    !.attempt = @ + 1,
                                    !.err = IF Observed(i)
                                            THEN branch ELSE "none",
                                    !.slept = IF Observed(i)
                                              THEN s ELSE 0]
                  ELSE AfterCall(w[i], "fail_marker")]
    /\ UNCHANGED <<nkeys, last, hist, heal, observe>>
    /\ UNCHANGED execVars
    /\ UNCHANGED outsideVars

\* a free-standing caller enters _rotated_api_call
RC_Begin(i) ==
    /\ w[i].pc = "ready"
    /\ \E m \in {DefaultMaxRetries, PageRangeMaxRetries,
                 DirectTransferMaxRetries} :
          w' = [w EXCEPT ![i] = [Thread("acquire") EXCEPT
                                     !.max_retries = m]]
    /\ UNCHANGED <<nkeys, rot, last, hist, heal, observe>>
    /\ UNCHANGED execVars
    /\ UNCHANGED outsideVars

RotatedCall(i) ==
    \/ RC_Acquire(i)
    \/ RC_Success(i)
    \/ RC_CallFails(i)
    \/ RC_ReportError(i)

\* ------------------------------------- _extract_pdf_pages_concurrent
TaskIds == 0 .. (Len(page_ranges) - 1)

\* one worker thread for every task
max_workers_PerTask(ntasks, n) == ntasks

\* line 1308: number of worker threads
max_workers(ntasks, n) == Min2(Min2(ntasks, n * 2), MaxWorkerThreads)

QueueSet == {task_queue[j] : j \in 1 .. Len(task_queue)}

\* line 1256, queue.Empty: the queue is empty, the worker thread ends
W_Exit(i) ==
    /\ w[i].pc = "idle"
    /\ task_queue = <<>>
    /\ w' = [w EXCEPT ![i].pc = "exited"]
    /\ UNCHANGED poolVars
    /\ UNCHANGED execVars
    /\ UNCHANGED outsideVars

\* line 1256: the worker takes the task at the head of the queue
W_Get(i) ==
    /\ w[i].pc = "idle"
    /\ task_queue # <<>>
    /\ w' = [w EXCEPT ![i].pc = "claimed", ![i].task = Head(task_queue)]
    /\ task_queue' = Tail(task_queue)
    /\ UNCHANGED poolVars
    /\ UNCHANGED <<page_ranges, unfinished, results, processed_tasks,
                   exec_count, phase>>
    /\ UNCHANGED outsideVars

\* lines 1259-1270: skip a task already in processed_tasks, else mark it
\* and enter _extract_single_page_range, up to its API call: the range is
\* served from the cache, or an exception escapes (the worker's except
\* branch), or the API call starts with max_retries=2
W_Mark(i) ==
    /\ w[i].pc = "claimed"
    /\ IF w[i].task \in processed_tasks
       THEN /\ unfinished' = unfinished - 1
            /\ w' = [w EXCEPT ![i] = Thread("idle")]
            /\ UNCHANGED <<processed_tasks, exec_count>>
       ELSE /\ processed_tasks' = processed_tasks \cup {w[i].task}
            /\ exec_count' = [exec_count EXCEPT ![w[i].task] = @ + 1]
            /\ \E start \in {"cache_hit", "raises", "api_call"} :
                  w' = [w EXCEPT ![i] =
                          CASE start = "cache_hit" ->
                                 [w[i] EXCEPT !.pc = "store", !.out = "text"]
                            [] start = "raises" ->
                                 [w[i] EXCEPT !.pc = "store",
                                              !.out = "error_msg"]
                            [] OTHER ->
                                 [w[i] EXCEPT !.pc = "acquire",
                                              !.attempt = 0,
                                              !.max_retries =
                                                  PageRangeMaxRetries]]
            /\ UNCHANGED unfinished
    /\ UNCHANGED poolVars
    /\ UNCHANGED <<page_ranges, task_queue, results, phase>>
    /\ UNCHANGED outsideVars

\* a store that puts a failed task back on the queue instead of recording it
W_Store_Requeue(i) ==
    /\ w[i].pc = "store"
    /\ w[i].task # NoTask
    /\ IF w[i].out = "text"
       THEN /\ results' = [t \in DOMAIN results \cup {w[i].task} |->
                             IF t = w[i].task
                             THEN [start_page |-> page_ranges[t + 1][1],
                                   content    |-> w[i].out]
                             ELSE results[t]]
            /\ UNCHANGED task_queue
       ELSE /\ task_queue' = Append(task_queue, w[i].task)
            /\ UNCHANGED results
    /\ w' = [w EXCEPT ![i].pc = "done"]
    /\ UNCHANGED poolVars
    /\ UNCHANGED <<page_ranges, unfinished, processed_tasks, exec_count,
                   phase>>
    /\ UNCHANGED outsideVars

\* lines 1278-1279 and 1289-1290: the worker records the content, or the
\* error message, under the task id
W_Store(i) ==
    /\ w[i].pc = "store"
    /\ w[i].task # NoTask
    /\ results' = [t \in DOMAIN results \cup {w[i].task} |->
                     IF t = w[i].task
                     THEN [start_page |-> page_ranges[t + 1][1],
                           content    |-> w[i].out]
                     ELSE results[t]]
    /\ w' = [w EXCEPT ![i].pc = "done"]
    /\ UNCHANGED poolVars
    /\ UNCHANGED <<page_ranges, task_queue, unfinished, processed_tasks,
                   exec_count, phase>>
    /\ UNCHANGED outsideVars

\* a worker that asks for the next task without calling task_done()
W_TaskDone_Forgotten(i) ==
    /\ w[i].pc = "done"
    /\ w' = [w EXCEPT ![i] = Thread("idle")]
    /\ UNCHANGED poolVars
    /\ UNCHANGED <<page_ranges, task_queue, unfinished, results,
                   processed_tasks, exec_count, phase>>
    /\ UNCHANGED outsideVars

\* task_done() of a worker thread that ends after a failed task
W_TaskDone_BreakOnError(i) ==
    /\ w[i].pc = "done"
    /\ unfinished' = unfinished - 1
    /\ w' = [w EXCEPT ![i] = IF w[i].out = "text" THEN Thread("idle")
                             ELSE Thread("exited")]
    /\ UNCHANGED poolVars
    /\ UNCHANGED <<page_ranges, task_queue, results, processed_tasks,
                   exec_count, phase>>
    /\ UNCHANGED outsideVars

\* line 1293: task_done(), then the loop asks for the next task
W_TaskDone(i) ==
    /\ w[i].pc = "done"
    /\ unfinished' = unfinished - 1
    /\ w' = [w EXCEPT ![i] = Thread("idle")]
    /\ UNCHANGED poolVars
    /\ UNCHANGED <<page_ranges, task_queue, results, processed_tasks,
                   exec_count, phase>>
    /\ UNCHANGED outsideVars

\* lines 1321-1330: join() returns once every task is done; assembly starts
C_Join ==
    /\ phase = "running"
    /\ unfinished = 0
    /\ phase' = "assembling"
    /\ UNCHANGED poolVars
    /\ UNCHANGED <<w, page_ranges, task_queue, unfinished, results,
                   processed_tasks, exec_count>>
    /\ UNCHANGED outsideVars

\* ------------------------- _extract_pdf_pages_concurrent: the assembly
\* A content string is modelled by what the assembly reads of it: its kind,
\* its length in characters, the characters _clean_page_content removes
\* from it (newlines beyond three in a run, which the model puts in the
\* string's first thousand characters) and the way it was cut, if it was.

\* line 1338
max_combined_length == 500000
\* lines 1273 and 1275: the length above which a range's content is cut
\* and the head and tail that are kept
max_length == 200000
head_size == 5000
tail_size == 5000
\* lines 1354 and 1355: the least room worth filling, and the room left
\* for the note
MinRemainingSpace == 5000
NoteReserve == 1000
\* line 1376, len("\n\n--- 页面分割线 ---\n\n")
SeparatorLen == 17
\* line 1374, len("[分片处理完成 - 页面连续]\n\n")
ContinuousHeaderLen == 17
\* line 1372, len("[分片处理完成 - 缺失页面: ]\n\n"), the list excluded
MissingHeaderLen == 19
\* line 1372: the pages of the list that the header shows
MissingShown == 10
\* line 1386, len("\n\n[注意：合并后总长度超限，已最终截取到500K字符]")
FinalNoteLen == 28
\* line 1333, len("[并发处理失败：所有任务都未能完成] - ")
AllFailedLen == 21
\* line 1355, len("\n\n[注意：总长度限制，已截取剩余K字符]"), the number excluded
SpaceNoteLen == 21
\* line 335, len("\n\n[... 中间省略  个字符 ...]\n\n"), the number excluded
OmitNoteLen == 23
\* lines 1524 and 1285, len("[第-页处理失败：]"), the numbers excluded
PageErrorLen == 10
\* line 1524, len("返回空内容")
EmptyReplyLen == 5

NoText == [chars_per_page |-> 0, runs |-> 0, filename |-> 0]
NoCombined == [kind |-> "none", header |-> "none", parts |-> <<>>,
               missing_pages |-> <<>>, len |-> 0, final_cut |-> FALSE,
               cuts |-> {}]

\* len(str(n)) of a number below a million
Digits(n) == IF n < 10 THEN 1
             ELSE IF n < 100 THEN 2
             ELSE IF n < 1000 THEN 3
             ELSE IF n < 10000 THEN 4
             ELSE IF n < 100000 THEN 5
             ELSE 6

\* len(f"{n:,}") of a number below a million
CommaDigits(n) == Digits(n) + (Digits(n) - 1) \div 3

\* len(str(pages)) of a list of page numbers
RECURSIVE SumDigits(_)
SumDigits(pages) == IF pages = <<>> THEN 0
                    ELSE Digits(Head(pages)) + SumDigits(Tail(pages))

ListReprLen(pages) == IF pages = <<>> THEN 2
                      ELSE 2 + SumDigits(pages) + 2 * (Len(pages) - 1)

\* lines 310-339: _smart_truncate_content
SmartTruncateContent(content, maxlen, head, tail) ==
    IF content.len = 0 \/ content.len <= maxlen
    THEN content
    ELSE [content EXCEPT
            !.len = head + (OmitNoteLen + CommaDigits(content.len - head - tail))
                    + (IF tail > 0 THEN tail ELSE 0),
            !.cut = "head_tail"]

\* A string as the pieces it is made of: stretches of the original text
\* (its characters from .. to) and stretches of an omission note.
TextPiece(a, b) == [kind |-> "text", omitted |-> 0, from |-> a, to |-> b]
Original(n) == IF n = 0 THEN <<>> ELSE <<TextPiece(1, n)>>
\* line 335: f"\n\n[... 中间省略 {omitted_chars:,} 个字符 ...]\n\n"
OmitNote(n) ==
    [kind |-> "note", omitted |-> n, from |-> 1,
     to |-> OmitNoteLen + CommaDigits(n)]
PieceLen(piece) == piece.to - piece.from + 1
RECURSIVE StrLen(_)
StrLen(s) == IF s = <<>> THEN 0 ELSE PieceLen(Head(s)) + StrLen(Tail(s))
\* s[:k] for k >= 0
RECURSIVE StrTake(_, _)
StrTake(s, k) ==
    IF k <= 0 \/ s = <<>> THEN <<>>
    ELSE IF PieceLen(Head(s)) <= k
    THEN <<Head(s)>> \o StrTake(Tail(s), k - PieceLen(Head(s)))
    ELSE <<[Head(s) EXCEPT !.to = Head(s).from + k - 1]>>
\* s[k:] for k >= 0
RECURSIVE StrDrop(_, _)
StrDrop(s, k) ==
    IF s = <<>> THEN <<>>
    ELSE IF k <= 0 THEN s
    ELSE IF PieceLen(Head(s)) <= k
    THEN StrDrop(Tail(s), k - PieceLen(Head(s)))
    ELSE <<[Head(s) EXCEPT !.from = Head(s).from + k]>> \o Tail(s)
\* s[-k:] for k > 0
StrLast(s, k) == StrDrop(s, StrLen(s) - k)

\* a tail taken as content[-tail_size:] whatever tail_size is
SmartTruncatePieces_NoTailGuard(s, maxlen, head, tail) ==
    IF s = <<>> \/ StrLen(s) <= maxlen
    THEN s
    ELSE StrTake(s, head)
         \o <<OmitNote(StrLen(s) - head - tail)>>
         \o (IF tail = 0 THEN s ELSE StrLast(s, tail))

\* lines 310-339: _smart_truncate_content, character by character
SmartTruncatePieces(s, maxlen, head, tail) ==
    IF s = <<>> \/ StrLen(s) <= maxlen
    THEN s
    ELSE LET omitted_chars == StrLen(s) - head - tail
             head_part == StrTake(s, head)
             tail_part == IF tail > 0 THEN StrLast(s, tail) ELSE <<>>
         IN  head_part \o <<OmitNote(omitted_chars)>> \o tail_part

\* nobody is inside a method of the rotator
NoLocking ==
    [holder |-> 0, usage_count |-> <<>>, success_count |-> <<>>,
     th |-> <<>>, calls |-> 0, returned_get |-> 0,
     returned_success |-> <<>>, serial |-> 0]

NoTruncation ==
    [pc |-> "idle", content |-> <<>>, max_length |-> 0, head_size |-> 0,
     tail_size |-> 0, once |-> <<>>, twice |-> <<>>]

\* _smart_truncate_content(content, max_length, head_size, tail_size)
SmartTruncateCall ==
    /\ truncated.pc = "called"
    /\ truncated' = [truncated EXCEPT
                        !.pc = "returned",
                        !.once = SmartTruncatePieces(truncated.content,
                                     truncated.max_length,
                                     truncated.head_size,
                                     truncated.tail_size)]
    /\ UNCHANGED <<pdf_text, arrival, combined, locking>>
    /\ UNCHANGED poolVars
    /\ UNCHANGED w
    /\ UNCHANGED execVars
    /\ UNCHANGED planVars
    /\ UNCHANGED cacheVars
    /\ UNCHANGED afterAsmVars

\* the function is called again, on its result and with the same arguments
SmartTruncateAgain ==
    /\ truncated.pc = "returned"
    /\ truncated' = [truncated EXCEPT
                        !.pc = "returned_again",
                        !.twice = SmartTruncatePieces(truncated.once,
                                      truncated.max_length,
                                      truncated.head_size,
                                      truncated.tail_size)]
    /\ UNCHANGED <<pdf_text, arrival, combined, locking>>
    /\ UNCHANGED poolVars
    /\ UNCHANGED w
    /\ UNCHANGED execVars
    /\ UNCHANGED planVars
    /\ UNCHANGED cacheVars
    /\ UNCHANGED afterAsmVars

\* lines 1390-1402: _clean_page_content
CleanPageContent(content, start_page) ==
    IF content.len = 0 THEN content
    ELSE [content EXCEPT !.len = @ - content.runs, !.runs = 0]

\* lines 1511-1518: the text of the API's reply for a range, stripped and
\* cut at 200000 characters; lines 1273-1275: the worker's own cut
PageText(range, text) ==
    LET reply == [kind |-> "text",
                  len  |-> text.chars_per_page * (range[2] - range[1] + 1),
                  runs |-> text.runs, cut |-> "none"]
        content == SmartTruncateContent(reply, max_length, head_size,
                                        tail_size)
    IN  IF content.len > max_length
        THEN SmartTruncateContent(content, max_length, head_size, tail_size)
        ELSE content

\* line 1524: the marker _extract_single_page_range returns for a reply
\* without text
PageFailure(range) ==
    [kind |-> "fail_marker",
     len  |-> PageErrorLen + Digits(range[1]) + Digits(range[2])
              + EmptyReplyLen,
     runs |-> 0, cut |-> "none"]

\* results.items(): the entries of the dict, in insertion order
Items(res, order) ==
    [j \in 1 .. Len(order) |->
        [task |-> order[j], start_page |-> res[order[j]].start_page,
         content |-> res[order[j]].content]]

\* sorted() is stable: an item goes behind the items whose key is not larger
RECURSIVE InsertByStart(_, _)
InsertByStart(sorted, item) ==
    IF sorted = <<>> THEN <<item>>
    ELSE IF Head(sorted).start_page <= item.start_page
         THEN <<Head(sorted)>> \o InsertByStart(Tail(sorted), item)
         ELSE <<item>> \o sorted

RECURSIVE SortByStart(_)
SortByStart(items) ==
    IF items = <<>> THEN <<>>
    ELSE InsertByStart(SortByStart(SubSeq(items, 1, Len(items) - 1)),
                       items[Len(items)])

\* an assembly that merges the results in the order they arrived
SortedResults_AsArrived(res, order) == Items(res, order)

\* line 1335: sorted(results.items(), key=lambda x: x[1][0])
SortedResults(res, order) == SortByStart(Items(res, order))

\* range(a, b)
PageRun(a, b) == [j \in 1 .. (b - a) |-> a + j - 1]

\* lines 1344-1368: the loop over sorted_results, from its i-th item on;
\* st holds expected_page, missing_pages, combined_parts and total_length
RECURSIVE MergeWalk(_, _, _, _)
MergeWalk(sorted, ranges, i, st) ==
    IF i > Len(sorted) THEN st
    ELSE
      LET start_page == sorted[i].start_page
          content == sorted[i].content
          missing == IF start_page > st.expected_page
                     THEN st.missing_pages
                          \o PageRun(st.expected_page, start_page)
                     ELSE st.missing_pages
          over == st.total_length + content.len > max_combined_length
          remaining_space == max_combined_length - st.total_length
      IN  IF over /\ remaining_space <= MinRemainingSpace
          THEN [st EXCEPT !.missing_pages = missing]
          ELSE
            LET kept == IF over
                        THEN [content EXCEPT
                                !.len = (remaining_space - NoteReserve)
                                        + SpaceNoteLen
                                        + Digits(remaining_space \div 1000),
                                !.cut = "prefix"]
                        ELSE content
                cleaned == CleanPageContent(kept, start_page)
                found == {j \in 1 .. Len(ranges) : ranges[j][1] = start_page}
                task_range == ranges[MinOf(found)]
            IN  MergeWalk(sorted, ranges, i + 1,
                   [expected_page  |-> IF found # {} THEN task_range[2] + 1
                                       ELSE st.expected_page,
                    missing_pages  |-> missing,
                    combined_parts |-> Append(st.combined_parts,
                                          [start_page |-> start_page,
                                           content |-> cleaned]),
                    total_length   |-> st.total_length + cleaned.len])

RECURSIVE PartsLen(_)
PartsLen(parts) == IF parts = <<>> THEN 0
                   ELSE Head(parts).content.len + PartsLen(Tail(parts))

\* lines 1331-1388, for the sorted results it is given
MergeSorted(sorted, ranges, text) ==
    IF sorted = <<>>
    THEN [NoCombined EXCEPT !.kind = "all_failed",
                            !.len = AllFailedLen + text.filename]
    ELSE
      LET st == MergeWalk(sorted, ranges, 1,
                   [expected_page |-> 1, missing_pages |-> <<>>,
                    combined_parts |-> <<>>, total_length |-> 0])
          shown == SubSeq(st.missing_pages, 1,
                          Min2(Len(st.missing_pages), MissingShown))
          header_len ==
              IF st.missing_pages # <<>>
              THEN MissingHeaderLen + ListReprLen(shown)
                   + (IF Len(st.missing_pages) > MissingShown THEN 3 ELSE 0)
              ELSE ContinuousHeaderLen
          joined_len ==
              IF st.combined_parts = <<>> THEN 0
              ELSE PartsLen(st.combined_parts)
                   + SeparatorLen * (Len(st.combined_parts) - 1)
          combined_len == header_len + joined_len
      IN  [kind |-> "merged",
           header |-> IF st.missing_pages # <<>> THEN "missing"
                      ELSE "continuous",
           parts |-> st.combined_parts,
           missing_pages |-> st.missing_pages,
           len |-> IF combined_len > max_combined_length
                   THEN max_combined_length + FinalNoteLen
                   ELSE combined_len,
           final_cut |-> combined_len > max_combined_length,
           cuts |-> {st.combined_parts[j].content.cut :
                        j \in 1 .. Len(st.combined_parts)}]

\* lines 1331-1388: the assembly of the results
AssemblePages(res, order, ranges, text) ==
    MergeSorted(SortedResults(res, order), ranges, text)

\* lines 1256-1293 for one task, from the worker's get() to task_done():
\* the range's text or its failure marker is put into results. The queue
\* hands the tasks out in order to max_workers threads, so a task can be
\* recorded once fewer than max_workers tasks ahead of it are unrecorded.
W_Record(t) ==
    /\ phase = "running"
    /\ t \in TaskIds \ DOMAIN results
    /\ Cardinality({x \in TaskIds \ DOMAIN results : x < t})
          < max_workers(Len(page_ranges), nkeys)
    /\ \E content \in {PageText(page_ranges[t + 1], pdf_text),
                       PageFailure(page_ranges[t + 1])} :
          results' = [x \in DOMAIN results \cup {t} |->
                        IF x = t
                        THEN [start_page |-> page_ranges[t + 1][1],
                              content    |-> content]
                        ELSE results[x]]
    /\ arrival' = Append(arrival, t)
    /\ unfinished' = unfinished - 1
    /\ processed_tasks' = processed_tasks \cup {t}
    /\ exec_count' = [exec_count EXCEPT ![t] = @ + 1]
    /\ UNCHANGED poolVars
    /\ UNCHANGED <<w, page_ranges, task_queue, phase>>
    /\ UNCHANGED <<pdf_text, combined, truncated, locking>>
    /\ UNCHANGED planVars
    /\ UNCHANGED cacheVars
    /\ UNCHANGED afterAsmVars

\* lines 1321-1388: join() returns, every task recorded, and the results
\* are assembled
C_Assemble ==
    /\ phase = "running"
    /\ unfinished = 0
    /\ combined' = AssemblePages(results, arrival, page_ranges, pdf_text)
    /\ phase' = "assembled"
    /\ UNCHANGED poolVars
    /\ UNCHANGED <<w, page_ranges, task_queue, unfinished, results,
                   processed_tasks, exec_count>>
    /\ UNCHANGED <<pdf_text, arrival, truncated, locking>>
    /\ UNCHANGED planVars
    /\ UNCHANGED cacheVars
    /\ UNCHANGED afterAsmVars

\* lines 1323-1388: join() is left on KeyboardInterrupt and the results
\* recorded so far are assembled
C_Interrupted ==
    /\ phase = "running"
    /\ unfinished > 0
    /\ combined' = AssemblePages(results, arrival, page_ranges, pdf_text)
    /\ phase' = "assembled"
    /\ UNCHANGED poolVars
    /\ UNCHANGED <<w, page_ranges, task_queue, unfinished, results,
                   processed_tasks, exec_count>>
    /\ UNCHANGED <<pdf_text, arrival, truncated, locking>>
    /\ UNCHANGED planVars
    /\ UNCHANGED cacheVars
    /\ UNCHANGED afterAsmVars

\* ------------------------------- _extract_single_file_content_wrapper
\* line 909
max_total_length == 300000
\* line 1012: the least room worth filling in the serial loop
MinSerialSpace == 3000
\* line 1013, len("\n\n[总长度限制截取]")
SerialNoteLen == 11
\* line 1043, len("\n\n[注意：材料总长度超限，已最终截取到300K字符]")
MaterialNoteLen == 27
\* lines 1907 and 1028, len("文件内容为空")
EmptyFileLen == 6
\* line 1045, len("材料1(教育经历)无可用内容")
NoContentLen == 14
\* line 1020, len("--- 文件:  ---\n"), the file name excluded
SerialPrefixLen == 13
\* line 964: the number of small files above which they run concurrently,
\* and the number of keys above which they do
SerialMaxFiles == 3
SerialMaxKeys == 2

\* line 1902, len(f"--- {file_type}文件:  ---\n"), the file name excluded;
\* file_type is 大文件 (large), 中等文件 (medium) or 小文件 (small)
PrefixLen(file_type) == IF file_type = "medium" THEN 17 ELSE 16

NoWrapper == [pc |-> "idle", large_files |-> <<>>, medium_files |-> <<>>,
              small_files |-> <<>>, contents |-> <<>>,
              total_content_length |-> 0, len |-> 0, final_cut |-> FALSE,
              skipped |-> {}]

\* a file's extracted text, as a content string
FileText(text_len) ==
    [kind |-> "text", len |-> text_len, runs |-> 0, cut |-> "none"]

\* lines 1852-1907, process_single_file_enhanced without cache hit or
\* exception: the item a file contributes, by its length and its cut
ProcessSingleFileEnhanced(text_len, file_type, name_len) ==
    LET content == SmartTruncateContent(FileText(text_len), max_length,
                                        head_size, tail_size)
    IN  IF content.len > 0
        THEN [len |-> PrefixLen(file_type) + name_len + content.len,
              cut |-> content.cut]
        ELSE [len |-> PrefixLen(file_type) + name_len + EmptyFileLen,
              cut |-> "none"]

\* lines 1822-1970, no task timing out: the items of the files
ProcessFilesWithEnhancedConcurrency(fs, file_type, name_len) ==
    [j \in 1 .. Len(fs) |->
        ProcessSingleFileEnhanced(fs[j], file_type, name_len)]

RECURSIVE ItemsLen(_)
ItemsLen(items) == IF items = <<>> THEN 0
                   ELSE Head(items).len + ItemsLen(Tail(items))

\* lines 977-1029: the serial loop over the small files, from the i-th on;
\* st holds contents and total_content_length
RECURSIVE SerialSmallFiles(_, _, _, _)
SerialSmallFiles(fs, name_len, i, st) ==
    IF i > Len(fs) THEN st
    ELSE
      LET content == SmartTruncateContent(FileText(fs[i]), max_length,
                                          head_size, tail_size)
          over == st.total_content_length + content.len > max_total_length
          remaining_space == max_total_length - st.total_content_length
      IN  IF content.len = 0
          THEN SerialSmallFiles(fs, name_len, i + 1,
                  [st EXCEPT !.contents = Append(@,
                      [len |-> SerialPrefixLen + name_len + EmptyFileLen,
                       cut |-> "none"])])
          ELSE IF over /\ remaining_space <= MinSerialSpace
          THEN st
          ELSE
            LET kept == IF over
                        THEN [content EXCEPT
                                !.len = (remaining_space - NoteReserve)
                                        + SerialNoteLen,
                                !.cut = "prefix"]
                        ELSE content
            IN  SerialSmallFiles(fs, name_len, i + 1,
                   [contents |-> Append(st.contents,
                        [len |-> SerialPrefixLen + name_len + kept.len,
                         cut |-> kept.cut]),
                    total_content_length |->
                        st.total_content_length + kept.len])

\* lines 869-1048: _extract_single_file_content_wrapper for files that are
\* already classified by size; what it returns, by its length, and the
\* work it left out: the medium phase (line 949), the small phase (line
\* 961) or the rest of the serial loop (the break of line 1017)
ExtractSingleFileContentWrapper(large, medium, small, name_len, n) ==
    LET first == IF large # <<>>
                 THEN ProcessFilesWithEnhancedConcurrency(large, "large",
                                                          name_len)
                 ELSE <<>>
        total1 == ItemsLen(first)
        second == IF medium # <<>> /\ 10 * total1 < 8 * max_total_length
                  THEN ProcessFilesWithEnhancedConcurrency(medium,
                                                  "medium", name_len)
                  ELSE <<>>
        total2 == total1 + ItemsLen(second)
        before == [contents |-> first \o second,
                   total_content_length |-> total2]
        third == IF small # <<>> /\ 10 * total2 < 9 * max_total_length
                 THEN IF Len(small) > SerialMaxFiles /\ n > SerialMaxKeys
                      THEN LET items ==
                                 ProcessFilesWithEnhancedConcurrency(small,
                                                     "small", name_len)
                           IN  [contents |-> before.contents \o items,
                                total_content_length |->
                                    total2 + ItemsLen(items)]
                      ELSE SerialSmallFiles(small, name_len, 1, before)
                 ELSE before
        joined_len == ItemsLen(third.contents)
                      + 2 * (Len(third.contents) - 1)
        no_medium == medium # <<>> /\ second = <<>>
        no_small == small # <<>> /\ third = before
        stopped == /\ ~no_small
                   /\ Len(third.contents) < Len(before.contents) + Len(small)
    IN  [pc |-> "returned", large_files |-> large, medium_files |-> medium,
         small_files |-> small, contents |-> third.contents,
         total_content_length |-> third.total_content_length,
         len |-> IF third.contents = <<>> THEN NoContentLen
                 ELSE IF joined_len > max_total_length
                 THEN max_total_length + MaterialNoteLen
                 ELSE joined_len,
         final_cut |-> third.contents # <<>>
                       /\ joined_len > max_total_length,
         skipped |-> {x \in {"medium"} : no_medium}
                     \cup {x \in {"small"} : no_small}
                     \cup {x \in {"serial"} : stopped}]

\* the wrapper runs on the files of the material
WrapperReturn ==
    /\ wrapper.pc = "called"
    /\ wrapper' = ExtractSingleFileContentWrapper(wrapper.large_files,
                      wrapper.medium_files, wrapper.small_files,
                      FilenameLen, nkeys)
    /\ UNCHANGED poolVars
    /\ UNCHANGED w
    /\ UNCHANGED execVars
    /\ UNCHANGED planVars
    /\ UNCHANGED cacheVars
    /\ UNCHANGED asmVars
    /\ UNCHANGED phaseVars

\* ------------------------------------ process_materials_from_zip: phases
\* The material ids with files; a material's content is kept by its kind:
\* "None", "content" (what the wrapper returned), "failed", "timeout" or
\* "unprocessed" (the three markers of lines 780, 794 and 804).
Mids == 1 .. MaxMaterials

\* lines 733-737: the groups in the order of all_material_groups
GroupOrder == <<"large", "medium", "small">>

NumGroups == Len(GroupOrder)

\* materials_group of the i-th pass of the loop of line 740
GroupAt(i) == {mid \in Mids : groups[mid] = GroupOrder[i]}

\* line 703
optimal_workers(n) == IF n > 1 THEN Min2(8, n) ELSE 3

\* phases that all get the full pool
PhaseWorkers_Full(i, n) == optimal_workers(n)

\* lines 734-736: the worker threads of the i-th group
PhaseWorkers(i, n) ==
    CASE i = 1 -> optimal_workers(n)
      [] i = 2 -> Max2(optimal_workers(n) \div 2, 2)
      [] OTHER -> Max2(optimal_workers(n) \div 3, 1)

\* the futures a worker thread is executing
Executing == {mid \in Mids : futures[mid] \in {"running", "stuck"}}

\* the next position of the loop of line 740
AfterGroup(i) == IF i < NumGroups THEN "submit" ELSE "finished"

\* lines 740-757: the loop takes the next group; an empty one is passed
\* over, else every material of it is submitted to a new executor
P_Submit ==
    /\ main = "submit"
    /\ IF GroupAt(group_index) = {}
       THEN /\ main' = AfterGroup(group_index)
            /\ group_index' = IF group_index < NumGroups
                              THEN group_index + 1 ELSE group_index
            /\ UNCHANGED <<futures, unfinished_futures, yielded>>
       ELSE /\ futures' = [mid \in Mids |->
                             IF mid \in GroupAt(group_index) THEN "pending"
                             ELSE futures[mid]]
            /\ unfinished_futures' = GroupAt(group_index)
            /\ yielded' = {}
            /\ main' = "collect"
            /\ UNCHANGED group_index
    /\ UNCHANGED <<groups, materials, total_processed, counted>>
    /\ UNCHANGED poolVars
    /\ UNCHANGED w
    /\ UNCHANGED execVars
    /\ UNCHANGED planVars
    /\ UNCHANGED cacheVars
    /\ UNCHANGED asmVars
    /\ UNCHANGED wrapper

\* ThreadPoolExecutor: a free worker thread takes the future submitted
\* first; the wrapper it runs returns in time or hangs in an external call
X_Start(mid) ==
    /\ futures[mid] = "pending"
    /\ \A other \in Mids : futures[other] = "pending" => mid <= other
    /\ Cardinality(Executing) < PhaseWorkers(group_index, nkeys)
    /\ \E state \in {"running", "stuck"} :
          futures' = [futures EXCEPT ![mid] = state]
    /\ UNCHANGED <<groups, materials, yielded, unfinished_futures,
                   total_processed, counted, group_index, main>>
    /\ UNCHANGED poolVars
    /\ UNCHANGED w
    /\ UNCHANGED execVars
    /\ UNCHANGED planVars
    /\ UNCHANGED cacheVars
    /\ UNCHANGED asmVars
    /\ UNCHANGED wrapper

\* a wrapper whose worker thread stores its content in the material itself
X_Return_Stores(mid) ==
    /\ futures[mid] = "running"
    /\ \E state \in {"done", "raised"} :
          /\ futures' = [futures EXCEPT ![mid] =
                          IF observe = "late" /\ materials[mid] = "timeout"
                          THEN "late_" \o state ELSE state]
          /\ materials' = [materials EXCEPT ![mid] =
                            IF state = "done" THEN "content" ELSE @]
    /\ UNCHANGED <<groups, yielded, unfinished_futures,
                   total_processed, counted, group_index, main>>
    /\ UNCHANGED poolVars
    /\ UNCHANGED w
    /\ UNCHANGED execVars
    /\ UNCHANGED planVars
    /\ UNCHANGED cacheVars
    /\ UNCHANGED asmVars
    /\ UNCHANGED wrapper

\* the wrapper returns its content, or an exception leaves it; when
\* observe = "late" the future notes, as history, that its material had the
\* timeout marker by then
X_Return(mid) ==
    /\ futures[mid] = "running"
    /\ \E state \in {"done", "raised"} :
          futures' = [futures EXCEPT ![mid] =
                        IF observe = "late" /\ materials[mid] = "timeout"
                        THEN "late_" \o state ELSE state]
    /\ UNCHANGED <<groups, materials, yielded, unfinished_futures,
                   total_processed, counted, group_index, main>>
    /\ UNCHANGED poolVars
    /\ UNCHANGED w
    /\ UNCHANGED execVars
    /\ UNCHANGED planVars
    /\ UNCHANGED cacheVars
    /\ UNCHANGED asmVars
    /\ UNCHANGED wrapper

\* a loop body that leaves the future in unfinished_futures
Discard_Kept(pending, mid) == pending

\* line 762: unfinished_futures.discard(future)
Discard(pending, mid) == pending \ {mid}

\* lines 760-782: as_completed hands out a finished future; the content is
\* stored, or the failure marker, and the material is counted. After the
\* last future the loop ends.
P_Collect(mid) ==
    /\ main = "collect"
    /\ mid \in GroupAt(group_index) \ yielded
    /\ futures[mid] \in {"done", "raised"}
    /\ yielded' = yielded \cup {mid}
    /\ unfinished_futures' = Discard(unfinished_futures, mid)
    /\ materials' = [materials EXCEPT ![mid] =
                        IF futures[mid] = "done" THEN "content"
                        ELSE "failed"]
    /\ total_processed' = total_processed + 1
    /\ counted' = [counted EXCEPT ![mid] = @ + 1]
    /\ main' = IF yielded' = GroupAt(group_index) THEN "fallback"
               ELSE "collect"
    /\ UNCHANGED <<groups, futures, group_index>>
    /\ UNCHANGED poolVars
    /\ UNCHANGED w
    /\ UNCHANGED execVars
    /\ UNCHANGED planVars
    /\ UNCHANGED cacheVars
    /\ UNCHANGED asmVars
    /\ UNCHANGED wrapper

\* lines 784-799: the ceiling of as_completed passes before every future
\* was handed out; every future still in unfinished_futures is cancelled,
\* which only a future not yet started obeys, and its material gets the
\* timeout marker and is counted
P_Timeout ==
    /\ main = "collect"
    /\ yielded # GroupAt(group_index)
    /\ futures' = [mid \in Mids |->
                     IF mid \in unfinished_futures
                        /\ futures[mid] = "pending"
                     THEN "cancelled" ELSE futures[mid]]
    /\ materials' = [mid \in Mids |->
                       IF mid \in unfinished_futures THEN "timeout"
                       ELSE materials[mid]]
    /\ total_processed' = total_processed + Cardinality(unfinished_futures)
    /\ counted' = [mid \in Mids |->
                     IF mid \in unfinished_futures THEN counted[mid] + 1
                     ELSE counted[mid]]
    /\ main' = "fallback"
    /\ UNCHANGED <<groups, yielded, unfinished_futures, group_index>>
    /\ UNCHANGED poolVars
    /\ UNCHANGED w
    /\ UNCHANGED execVars
    /\ UNCHANGED planVars
    /\ UNCHANGED cacheVars
    /\ UNCHANGED asmVars
    /\ UNCHANGED wrapper

\* lines 801-807: a material of the group still without content gets the
\* unprocessed marker and is counted
P_Fallback ==
    /\ main = "fallback"
    /\ materials' = [mid \in Mids |->
                       IF mid \in GroupAt(group_index)
                          /\ materials[mid] = "None"
                       THEN "unprocessed" ELSE materials[mid]]
    /\ total_processed' = total_processed
          + Cardinality({mid \in GroupAt(group_index) :
                            materials[mid] = "None"})
    /\ counted' = [mid \in Mids |->
                     IF mid \in GroupAt(group_index)
                        /\ materials[mid] = "None"
                     THEN counted[mid] + 1 ELSE counted[mid]]
    /\ main' = "shutdown"
    /\ UNCHANGED <<groups, futures, yielded, unfinished_futures,
                   group_index>>
    /\ UNCHANGED poolVars
    /\ UNCHANGED w
    /\ UNCHANGED execVars
    /\ UNCHANGED planVars
    /\ UNCHANGED cacheVars
    /\ UNCHANGED asmVars
    /\ UNCHANGED wrapper

\* an executor that is left without waiting for its worker threads
P_Exit_NoWait ==
    /\ main = "shutdown"
    /\ main' = AfterGroup(group_index)
    /\ group_index' = IF group_index < NumGroups THEN group_index + 1
                      ELSE group_index
    /\ UNCHANGED <<groups, materials, futures, yielded, unfinished_futures,
                   total_processed, counted>>
    /\ UNCHANGED poolVars
    /\ UNCHANGED w
    /\ UNCHANGED execVars
    /\ UNCHANGED planVars
    /\ UNCHANGED cacheVars
    /\ UNCHANGED asmVars
    /\ UNCHANGED wrapper

\* lines 746 and 809: the with block is left, which is
\* executor.shutdown(wait=True): it returns when no worker thread executes
\* a future any more; then the loop goes on to the next group
P_Exit ==
    /\ main = "shutdown"
    /\ \A mid \in Mids : futures[mid] \notin {"pending", "running", "stuck"}
    /\ main' = AfterGroup(group_index)
    /\ group_index' = IF group_index < NumGroups THEN group_index + 1
                      ELSE group_index
    /\ UNCHANGED <<groups, materials, futures, yielded, unfinished_futures,
                   total_processed, counted>>
    /\ UNCHANGED poolVars
    /\ UNCHANGED w
    /\ UNCHANGED execVars
    /\ UNCHANGED planVars
    /\ UNCHANGED cacheVars
    /\ UNCHANGED asmVars
    /\ UNCHANGED wrapper

\* ------------------------------------------------- page-range planning
\* _split_pdf_pages that lets every chunk run a full pages_per_chunk
SplitPdfPages_NoClamp(total_pages, pages_per_chunk) ==
    IF total_pages <= 0
    THEN <<>>
    ELSE IF total_pages <= pages_per_chunk
    THEN << <<1, total_pages>> >>
    ELSE [c \in 1 .. ((total_pages + pages_per_chunk - 1)
                          \div pages_per_chunk) |->
             <<(c - 1) * pages_per_chunk + 1, c * pages_per_chunk>>]

\* _split_pdf_pages that answers an unreadable document with one default
\* range
SplitPdfPages_DefaultRange(total_pages, pages_per_chunk) ==
    IF total_pages <= 0
    THEN << <<1, pages_per_chunk>> >>
    ELSE IF total_pages <= pages_per_chunk
    THEN << <<1, total_pages>> >>
    ELSE [c \in 1 .. ((total_pages + pages_per_chunk - 1)
                          \div pages_per_chunk) |->
             <<(c - 1) * pages_per_chunk + 1,
               Min2((c - 1) * pages_per_chunk + pages_per_chunk,
                    total_pages)>>]

\* _split_pdf_pages: no range for an unreadable or empty document, one
\* range when the document fits one chunk, else a range for every start in
\* range(1, total_pages + 1, pages_per_chunk), the last one clamped
SplitPdfPages(total_pages, pages_per_chunk) ==
    IF total_pages <= 0
    THEN <<>>
    ELSE IF total_pages <= pages_per_chunk
    THEN << <<1, total_pages>> >>
    ELSE [c \in 1 .. ((total_pages + pages_per_chunk - 1)
                          \div pages_per_chunk) |->
             <<(c - 1) * pages_per_chunk + 1,
               Min2((c - 1) * pages_per_chunk + pages_per_chunk,
                    total_pages)>>]

\* a chunk size without the upper limit of lines 1592-1593
OptimalChunkSize_NoCap(total_pages, api_count) ==
    Max2(MinChunkSize, total_pages \div (api_count * ChunksPerApi))

\* _extract_pdf_with_concurrent_pages, lines 1588-1593
OptimalChunkSize(total_pages, api_count) ==
    LET target_chunks == api_count * ChunksPerApi
        optimal       == Max2(MinChunkSize, total_pages \div target_chunks)
    IN  IF optimal > MaxChunkSize THEN MaxChunkSize ELSE optimal

\* _extract_pdf_with_concurrent_pages up to the call of
\* _extract_pdf_pages_concurrent: the ranges it passes on, none when it
\* falls back to _extract_pdf_with_file_api
PlanPageRanges(total_pages, api_count) ==
    IF total_pages <= 0
    THEN <<>>
    ELSE SplitPdfPages(total_pages, OptimalChunkSize(total_pages, api_count))

\* _extract_pdf_with_ai: the strategy for document d with rotator state p
\* over n configured keys. api_count is len(self.api_rotator.api_keys).
ChooseStrategy(d, p, n) ==
    LET api_count == n
    IN  IF d.size = "over_100MB" \/ ~d.exists
        THEN "rejected"
        ELSE IF d.pages > SplitPageThreshold /\ api_count > 1
        THEN IF PlanPageRanges(d.pages, api_count) = <<>>
             THEN "file_api"
             ELSE "split"
        ELSE IF d.size = "over_10MB"
        THEN "file_api"
        ELSE "direct"

NoDoc == [pages |-> 0, size |-> "none", exists |-> FALSE, usable |-> 0,
          split_pages |-> 0]

\* _extract_pdf_with_ai is given a PDF: a page count (0 when pypdf cannot
\* read it), a size class and whether the path exists. doc.usable notes, as
\* history, how many credentials were not blacklisted at that moment.
ExtractPdfWithAI(d) ==
    /\ strategy = "none"
    /\ doc' = [pages |-> d.pages, size |-> d.size, exists |-> d.exists,
               usable |-> nkeys - Cardinality(rot.blacklisted),
               split_pages |-> d.pages]
    /\ strategy' = ChooseStrategy(d, rot, nkeys)
    /\ page_ranges' = IF strategy' = "split"
                      THEN PlanPageRanges(d.pages, nkeys)
                      ELSE <<>>
    /\ UNCHANGED poolVars
    /\ UNCHANGED <<w, task_queue, unfinished, results, processed_tasks,
                   exec_count, phase>>
    /\ UNCHANGED cacheVars
    /\ UNCHANGED otherVars

\* _get_pdf_page_count (lines 1177-1185): len(reader.pages), or 0 when
\* pypdf cannot read the file at that moment
GetPdfPageCount(d) == {d.pages, 0}

\* _extract_pdf_with_concurrent_pages is given a PDF, up to the start of
\* the worker threads: it reads the page count (doc.pages) and falls back
\* to _extract_pdf_with_file_api when it is not positive; else
\* _split_pdf_pages reads the page count again (doc.split_pages) and with
\* no range the same fallback is taken; else _extract_pdf_pages_concurrent
\* puts a task for every range on the queue (lines 1245-1246) and starts
\* the worker threads (lines 1308-1317)
ExtractPdfWithConcurrentPages(d) ==
    /\ strategy = "none"
    /\ \E total_pages \in GetPdfPageCount(d) :
       \E split_pages \in GetPdfPageCount(d) :
          LET ranges == IF total_pages <= 0
                        THEN <<>>
                        ELSE SplitPdfPages(split_pages,
                                 OptimalChunkSize(total_pages, nkeys))
          IN  /\ doc' = [pages |-> total_pages, size |-> d.size,
                         exists |-> d.exists,
                         usable |-> nkeys - Cardinality(rot.blacklisted),
                         split_pages |-> IF total_pages <= 0 THEN 0
                                         ELSE split_pages]
              /\ page_ranges' = ranges
              /\ IF ranges = <<>>
                 THEN /\ strategy' = "file_api"
                      /\ UNCHANGED <<w, task_queue, unfinished, results,
                                     processed_tasks, exec_count, phase>>
                 ELSE /\ strategy' = "split"
                      /\ task_queue' = [t \in 1 .. Len(ranges) |-> t - 1]
                      /\ unfinished' = Len(ranges)
                      /\ results' = <<>>
                      /\ processed_tasks' = {}
                      /\ exec_count' = [t \in 0 .. (Len(ranges) - 1) |-> 0]
                      /\ w' = [i \in 1 .. max_workers(Len(ranges), nkeys)
                                  |-> Thread("idle")]
                      /\ phase' = "running"
    /\ UNCHANGED poolVars
    /\ UNCHANGED cacheVars
    /\ UNCHANGED otherVars

\* _extract_pdf_with_concurrent_pages returns: the fallback has answered,
\* or the worker threads have run and the ranges are assembled
ConcurrentPagesReturn ==
    /\ strategy # "none"
    /\ doc' = NoDoc
    /\ strategy' = "none"
    /\ w' = <<>>
    /\ page_ranges' = <<>>
    /\ task_queue' = <<>>
    /\ unfinished' = 0
    /\ results' = <<>>
    /\ processed_tasks' = {}
    /\ exec_count' = <<>>
    /\ phase' = "idle"
    /\ UNCHANGED poolVars
    /\ UNCHANGED cacheVars
    /\ UNCHANGED otherVars

\* _extract_pdf_with_ai returns
ExtractReturn ==
    /\ strategy # "none"
    /\ doc' = NoDoc
    /\ strategy' = "none"
    /\ page_ranges' = <<>>
    /\ UNCHANGED poolVars
    /\ UNCHANGED <<w, task_queue, unfinished, results, processed_tasks,
                   exec_count, phase>>
    /\ UNCHANGED cacheVars
    /\ UNCHANGED otherVars

\* ------------------------------------------------------ SmartCacheManager
\* Sizes are counted in MB and times in hours, the units of the
\* configuration (max_disk_size_mb, max_age_hours). A cached content string
\* is named by the size in MB of the cache file that holds it.
\* the paths, key prefixes and content strings the callers use
Sources == {1}
Prefixes == {"", "pages"}
Contents == {1, 2}
FileSizes == HashThresholdMB .. MaxFileSizeMB
\* what get returns on a miss (None)
NoContent == 0
\* the key prefixes of the entries a filled cache starts with, and the
\* prefixes set and get are then called with
EvictPrefixes == <<"r1", "r2", "r3", "r4", "r5", "r6", "r7", "r8", "r9">>
EvictSetPrefixes == {"", "r1"}
EvictGetPrefixes == {"", "r1", "r2"}
\* the max_memory_items of the managers whose memory tier starts full
FullMemorySizes == {FullMemorySmall, FullMemoryLarge}

\* a source file: its stat (size, mtime) and its bytes, split into the
\* first and last megabyte (head) and everything between them (body)
SourceFile(size) ==
    [exists |-> TRUE, size |-> size, mtime |-> 0, head |-> 0, body |-> 0]
NoFile ==
    [exists |-> FALSE, size |-> 0, mtime |-> 0, head |-> 0, body |-> 0]

\* _get_file_hash: the whole content of a file of at most 10 MB (bytes of
\* another length are other bytes, so the size is part of it); the first
\* and last megabyte plus path, size and mtime of a larger one; the path
\* alone when the file cannot be examined
FileHash(path) ==
    LET f == files[path]
    IN  IF ~f.exists
        THEN [kind |-> "path", head |-> 0, body |-> 0,
              path |-> path, size |-> 0, mtime |-> 0]
        ELSE IF f.size > HashThresholdMB
        THEN [kind |-> "window", head |-> f.head, body |-> 0,
              path |-> path, size |-> f.size, mtime |-> f.mtime]
        ELSE [kind |-> "full", head |-> f.head, body |-> f.body,
              path |-> 0, size |-> f.size, mtime |-> 0]

\* _get_cache_key: prefix_hash, or the hash itself under the empty prefix
GetCacheKey(file_hash, prefix) == [prefix |-> prefix, hash |-> file_hash]

\* CacheEntry.is_expired that already expires an entry of exactly max age
IsExpired_AtAge(entry, t) == t - entry.cache_time >= max_age_hours

\* CacheEntry.is_expired
IsExpired(entry, t) == t - entry.cache_time > max_age_hours

\* CacheEntry.is_file_changed that compares the size only
IsFileChanged_SizeOnly(entry, path) ==
    LET f == files[path]
    IN  \/ ~f.exists
        \/ f.size # entry.file_size

\* CacheEntry.is_file_changed
IsFileChanged(entry, path) ==
    LET f == files[path]
    IN  \/ ~f.exists
        \/ f.size # entry.file_size
        \/ f.mtime # entry.file_mtime

\* memory_cache is a dict: key/entry pairs in insertion order
MemHas(mem, key) == \E i \in 1 .. Len(mem) : mem[i].key = key
MemIdx(mem, key) == CHOOSE i \in 1 .. Len(mem) : mem[i].key = key
MemDel(mem, key) ==
    LET Other(x) == x.key # key
    IN  SelectSeq(mem, Other)
\* a dict assignment that would be lost
MemPut_Lost(mem, key, entry) == mem
MemPut(mem, key, entry) ==
    IF MemHas(mem, key)
    THEN [mem EXCEPT ![MemIdx(mem, key)].entry = entry]
    ELSE Append(mem, [key |-> key, entry |-> entry])

RECURSIVE Without(_, _, _)
Without(mem, removed, i) ==
    IF i > Len(mem)
    THEN <<>>
    ELSE (IF i \in removed THEN <<>> ELSE <<mem[i]>>)
            \o Without(mem, removed, i + 1)

\* a memory tier that is never evicted
EvictMemoryCache_Nothing(mem) == mem

\* an eviction that deletes the max(1, n // 4) entries inserted first
EvictMemoryCache_Fifo(mem) ==
    IF mem = <<>>
    THEN mem
    ELSE Without(mem, 1 .. Max2(1, Len(mem) \div 4), 1)

\* _evict_memory_cache: stable sort by last_access, delete the first
\* max(1, n // 4) entries
EvictMemoryCache(mem) ==
    IF mem = <<>>
    THEN mem
    ELSE LET n == Len(mem)
             remove_count == Max2(1, n \div 4)
             Before(i, j) ==
                 \/ mem[i].entry.last_access < mem[j].entry.last_access
                 \/ /\ mem[i].entry.last_access = mem[j].entry.last_access
                    /\ i < j
             removed == {i \in 1 .. n :
                           Cardinality({j \in 1 .. n : Before(j, i)})
                               < remove_count}
         IN  Without(mem, removed, 1)

\* an unlink that would leave the file in place
Drop_Kept(d, k) == d

\* a store (the remote tier, the cache directory) without one key
Drop(d, k) == [x \in DOMAIN d \ {k} |-> d[x]]
Store(d, k, v) == [x \in DOMAIN d \cup {k} |-> IF x = k THEN v ELSE d[x]]
EmptyStore == <<>>

\* total size of the cache files
RECURSIVE SumOver(_, _)
SumOver(d, S) ==
    IF S = {}
    THEN 0
    ELSE LET k == CHOOSE x \in S : TRUE
         IN  d[k].entry.content + SumOver(d, S \ {k})
DiskSize(d) == SumOver(d, DOMAIN d)

\* the orders in which _cleanup_large_cache may visit the cache files:
\* sorted by modification time, files of equal time in directory order
DiskOrders(d) ==
    {o \in [1 .. Cardinality(DOMAIN d) -> DOMAIN d] :
        /\ \A i, j \in DOMAIN o : i # j => o[i] # o[j]
        /\ \A i, j \in DOMAIN o : i < j => d[o[i]].mtime <= d[o[j]].mtime}

\* a deletion loop that stops once the usage is back at the limit
RECURSIVE Sweep_ToLimit(_, _, _, _, _)
Sweep_ToLimit(d, order, i, cleaned_size, total) ==
    IF i > Len(order) \/ cleaned_size >= total - max_disk_size_mb
    THEN d
    ELSE Sweep_ToLimit(Drop(d, order[i]), order, i + 1,
                       cleaned_size + d[order[i]].entry.content, total)

\* the deletion loop of _cleanup_large_cache: stop once the deleted size
\* reaches total - 0.8 * max_disk_size_mb
RECURSIVE Sweep(_, _, _, _, _)
Sweep(d, order, i, cleaned_size, total) ==
    IF i > Len(order) \/ 5 * cleaned_size >= 5 * total - 4 * max_disk_size_mb
    THEN d
    ELSE Sweep(Drop(d, order[i]), order, i + 1,
               cleaned_size + d[order[i]].entry.content, total)

CleanupLargeCache(d, order) == Sweep(d, order, 1, 0, DiskSize(d))

\* _update_cache_size: clean up when the total exceeds max_disk_size_mb
UpdateCacheSize(d, order) ==
    IF DiskSize(d) > max_disk_size_mb THEN CleanupLargeCache(d, order) ELSE d

StatsZero ==
    [hits |-> 0, misses |-> 0, disk_hits |-> 0, memory_hits |-> 0,
     redis_hits |-> 0, files_cached |-> 0, cache_size_mb |-> 0]

\* the hit branches of get: access_count += 1, last_access = time.time()
Touched(entry) ==
    [entry EXCEPT !.access_count = @ + 1, !.last_access = now]

\* history of a set followed by the next cache operation; when
\* observe = "evict" a set also notes the memory tier before the call and
\* after _evict_memory_cache, and the cache directory after its write;
\* when observe = "tiers" it notes these too, and set and get note their
\* key and which of their steps raised: "stat" (os.stat of the source),
\* "remote" (setex), "file" (writing the cache file), "load" (loading it);
\* when observe = "stats" get notes its key and gets counts the get calls
\* since the manager was made or cleared
NoHash ==
    [kind |-> "none", head |-> 0, body |-> 0, path |-> 0, size |-> 0,
     mtime |-> 0]
NoRoundTrip ==
    [stage |-> "none", path |-> 0, prefix |-> "", content |-> NoContent,
     hash |-> NoHash, size |-> 0, mtime |-> 0, at |-> 0,
     evicted |-> FALSE, cleaned |-> FALSE, result |-> NoContent,
     stat_same |-> FALSE, print_same |-> FALSE, young |-> FALSE,
     tier |-> "none", fresh |-> FALSE, size_same |-> FALSE,
     restored |-> FALSE, mem_before |-> <<>>, mem_kept |-> <<>>,
     disk_written |-> <<>>, failed |-> {}, after_load_failure |-> FALSE,
     gets |-> 0]

\* what a miss serves
NoEntry ==
    [content |-> NoContent, file_hash |-> NoHash, file_size |-> 0,
     file_mtime |-> 0, cache_time |-> 0, access_count |-> 0,
     last_access |-> 0]

\* the entry e as the source and the clock stand: recorded size and mtime
\* are the source's, and its age is at most max age
Fresh(e, path) ==
    /\ files[path].exists
    /\ e.file_size = files[path].size
    /\ e.file_mtime = files[path].mtime
    /\ now - e.cache_time <= max_age_hours

\* the history after get(path, prefix) served entry e from a tier
AfterGet(path, prefix, tier, e) ==
    IF rt.stage = "set" /\ rt.path = path /\ rt.prefix = prefix
    THEN [NoRoundTrip EXCEPT
            !.stage = "got",
            !.content = rt.content,
            !.evicted = rt.evicted,
            !.cleaned = rt.cleaned,
            !.after_load_failure = rt.after_load_failure,
            !.result = e.content,
            !.tier = tier,
            !.fresh = Fresh(e, path),
            !.size_same = files[path].exists /\ files[path].size = rt.size,
            !.restored = edits > 0 /\ files[path] = backup[path],
            !.stat_same = /\ files[path].exists
                          /\ files[path].size = rt.size
                          /\ files[path].mtime = rt.mtime,
            !.print_same = (FileHash(path) = rt.hash),
            !.young = (now - rt.at <= max_age_hours)]
    ELSE [NoRoundTrip EXCEPT
            !.stage = "get",
            !.result = e.content,
            !.tier = tier,
            !.fresh = Fresh(e, path)]

\* the key of a get and what raised inside it, kept when observe = "tiers";
\* the key and the number of get calls, kept when observe = "stats"
NoteGet(r, path, prefix, what) ==
    IF observe = "tiers"
    THEN [r EXCEPT !.path = path, !.prefix = prefix, !.failed = what]
    ELSE IF observe = "stats"
    THEN [r EXCEPT !.path = path, !.prefix = prefix, !.gets = rt.gets + 1]
    ELSE r

\* the set and get calls of the run so far
OpsMade ==
    stats.files_cached + stats.hits + stats.misses - config.ops_before

\* SmartCacheManager.set(file_path, content, prefix). The remote write and
\* the cache-file write may each fail; both failures are caught and logged.
CacheSet(path, content, prefix) ==
    /\ OpsMade < MaxOps
    /\ IF ~files[path].exists
       THEN \* os.stat raises: nothing is stored, set returns False
            /\ rt' = IF observe = "tiers"
                     THEN [NoRoundTrip EXCEPT
                             !.stage = "set_failed",
                             !.path = path,
                             !.prefix = prefix,
                             !.content = content,
                             !.failed = {"stat"}]
                     ELSE [NoRoundTrip EXCEPT !.gets = rt.gets]
            /\ UNCHANGED <<memory_cache, redis_store, disk, stats>>
       ELSE \E redis_ok \in (IF redis_on THEN BOOLEAN ELSE {TRUE}),
               disk_ok \in BOOLEAN :
            LET file_hash == FileHash(path)
                cache_key == GetCacheKey(file_hash, prefix)
                entry == [content      |-> content,
                          file_hash    |-> file_hash,
                          file_size    |-> files[path].size,
                          file_mtime   |-> files[path].mtime,
                          cache_time   |-> now,
                          access_count |-> 1,
                          last_access  |-> now]
                full == Len(memory_cache) >= max_memory_items
                mem1 == IF full THEN EvictMemoryCache(memory_cache)
                        ELSE memory_cache
                disk1 == IF disk_ok
                         THEN Store(disk, cache_key,
                                    [entry |-> entry, mtime |-> now])
                         ELSE disk
            IN  /\ memory_cache' = MemPut(mem1, cache_key, entry)
                /\ redis_store' =
                      IF redis_on /\ redis_ok
                      THEN Store(redis_store, cache_key,
                                 [entry |-> entry, set_at |-> now])
                      ELSE redis_store
                /\ \E order \in DiskOrders(disk1) :
                      disk' = UpdateCacheSize(disk1, order)
                /\ stats' = [stats EXCEPT
                                !.files_cached = @ + 1,
                                !.cache_size_mb = DiskSize(disk')]
                /\ rt' = [NoRoundTrip EXCEPT
                            !.stage = "set",
                            !.path = path,
                            !.prefix = prefix,
                            !.content = content,
                            !.hash = file_hash,
                            !.size = files[path].size,
                            !.mtime = files[path].mtime,
                            !.at = now,
                            !.gets = rt.gets,
                            !.evicted = full /\ memory_cache # <<>>,
                            !.cleaned = DiskSize(disk1) > max_disk_size_mb,
                            !.mem_before =
                               IF observe \in {"evict", "tiers"}
                               THEN memory_cache ELSE <<>>,
                            !.mem_kept =
                               IF observe \in {"evict", "tiers"}
                               THEN mem1 ELSE <<>>,
                            !.disk_written =
                               IF observe \in {"evict", "tiers"}
                               THEN disk1 ELSE <<>>,
                            !.failed =
                               IF observe = "tiers"
                               THEN {x \in {"remote"} : ~redis_ok}
                                    \cup {x \in {"file"} : ~disk_ok}
                               ELSE {},
                            !.after_load_failure =
                               /\ observe = "tiers"
                               /\ "load" \in rt.failed
                               /\ rt.path = path
                               /\ rt.prefix = prefix]
    /\ UNCHANGED <<files, edits, backup, now, redis_on, config>>
    /\ UNCHANGED poolVars
    /\ UNCHANGED w
    /\ UNCHANGED execVars
    /\ UNCHANGED planVars
    /\ UNCHANGED otherVars

\* SmartCacheManager.get(file_path, prefix): memory, then the remote tier,
\* then the cache directory. The remote tier may fail for the whole call
\* and the cache file may fail to load; both are caught.
CacheGet(path, prefix) ==
    /\ OpsMade < MaxOps
    /\ \E redis_ok \in (IF redis_on THEN BOOLEAN ELSE {TRUE}),
          readable \in (IF GetCacheKey(FileHash(path), prefix) \in DOMAIN disk
                        THEN BOOLEAN ELSE {TRUE}) :
       LET file_hash == FileHash(path)
           cache_key == GetCacheKey(file_hash, prefix)
           Valid(e) == ~IsExpired(e, now) /\ ~IsFileChanged(e, path)
           in_mem == MemHas(memory_cache, cache_key)
           m_entry == memory_cache[MemIdx(memory_cache, cache_key)].entry
           mem_hit == in_mem /\ Valid(m_entry)
           mem1 == IF in_mem THEN MemDel(memory_cache, cache_key)
                   ELSE memory_cache
           Promote(e) == IF Len(mem1) < max_memory_items
                         THEN Append(mem1, [key |-> cache_key,
                                            entry |-> Touched(e)])
                         ELSE mem1
           r_data == /\ redis_on
                     /\ redis_ok
                     /\ cache_key \in DOMAIN redis_store
           r_entry == redis_store[cache_key].entry
           r_hit == r_data /\ Valid(r_entry)
           redis1 == IF r_data THEN Drop(redis_store, cache_key)
                     ELSE redis_store
           d_has == cache_key \in DOMAIN disk
           d_entry == disk[cache_key].entry
           d_hit == d_has /\ readable /\ Valid(d_entry)
       IN  IF mem_hit
           THEN /\ memory_cache' =
                      MemPut(memory_cache, cache_key, Touched(m_entry))
                /\ stats' = [stats EXCEPT !.hits = @ + 1,
                                          !.memory_hits = @ + 1]
                /\ rt' = NoteGet(AfterGet(path, prefix, "memory", m_entry),
                                 path, prefix, {})
                /\ UNCHANGED <<redis_store, disk>>
           ELSE IF r_hit
           THEN /\ memory_cache' = Promote(r_entry)
                /\ stats' = [stats EXCEPT !.hits = @ + 1,
                                          !.redis_hits = @ + 1]
                /\ rt' = NoteGet(AfterGet(path, prefix, "redis", r_entry),
                                 path, prefix, {})
                /\ UNCHANGED <<redis_store, disk>>
           ELSE IF d_hit
           THEN /\ memory_cache' = Promote(d_entry)
                /\ redis_store' =
                      IF redis_on /\ redis_ok
                      THEN Store(redis1, cache_key,
                                 [entry |-> d_entry, set_at |-> now])
                      ELSE redis1
                /\ stats' = [stats EXCEPT !.hits = @ + 1,
                                          !.disk_hits = @ + 1]
                /\ rt' = NoteGet(AfterGet(path, prefix, "disk", d_entry),
                                 path, prefix, {})
                /\ UNCHANGED disk
           ELSE /\ memory_cache' = mem1
                /\ redis_store' = redis1
                /\ disk' = IF d_has THEN Drop(disk, cache_key) ELSE disk
                /\ stats' = [stats EXCEPT !.misses = @ + 1]
                /\ rt' = NoteGet(AfterGet(path, prefix, "none", NoEntry),
                                 path, prefix,
                                 {x \in {"load"} : d_has /\ ~readable})
    /\ UNCHANGED <<files, edits, backup, now, redis_on, config>>
    /\ UNCHANGED poolVars
    /\ UNCHANGED w
    /\ UNCHANGED execVars
    /\ UNCHANGED planVars
    /\ UNCHANGED otherVars

\* an hour passes; the remote tier drops the keys whose TTL
\* (max_age_hours * 3600 seconds, set by setex) has run out
Tick ==
    /\ now < MaxTime
    /\ now' = now + 1
    /\ redis_store' =
          LET alive == {k \in DOMAIN redis_store :
                          now' - redis_store[k].set_at < max_age_hours}
          IN  [k \in alive |-> redis_store[k]]
    /\ UNCHANGED <<files, edits, backup, redis_on, config, memory_cache, disk, stats,
                   rt>>
    /\ UNCHANGED poolVars
    /\ UNCHANGED w
    /\ UNCHANGED execVars
    /\ UNCHANGED planVars
    /\ UNCHANGED otherVars

\* the source is rewritten in place, size and mtime kept: bytes change in
\* the first or last megabyte, or between them
Rewrite(path) ==
    /\ edits < MaxEdits
    /\ edits' = edits + 1
    /\ files[path].exists
    /\ \E part \in {"head", "body"} :
          files' = IF part = "head"
                   THEN [files EXCEPT ![path].head = 1 - @]
                   ELSE [files EXCEPT ![path].body = 1 - @]
    /\ UNCHANGED <<backup, now, redis_on, config, memory_cache, redis_store, disk,
                   stats, rt>>
    /\ UNCHANGED poolVars
    /\ UNCHANGED w
    /\ UNCHANGED execVars
    /\ UNCHANGED planVars
    /\ UNCHANGED otherVars

\* the source gets another modification time
Touch(path) ==
    /\ edits < MaxEdits
    /\ edits' = edits + 1
    /\ files[path].exists
    /\ files' = [files EXCEPT ![path].mtime = 1 - @]
    /\ UNCHANGED <<backup, now, redis_on, config, memory_cache, redis_store, disk,
                   stats, rt>>
    /\ UNCHANGED poolVars
    /\ UNCHANGED w
    /\ UNCHANGED execVars
    /\ UNCHANGED planVars
    /\ UNCHANGED otherVars

\* the source gets another size
Resize(path) ==
    /\ edits < MaxEdits
    /\ edits' = edits + 1
    /\ files[path].exists
    /\ \E size \in FileSizes \ {files[path].size} :
          files' = [files EXCEPT ![path].size = size]
    /\ UNCHANGED <<backup, now, redis_on, config, memory_cache, redis_store, disk,
                   stats, rt>>
    /\ UNCHANGED poolVars
    /\ UNCHANGED w
    /\ UNCHANGED execVars
    /\ UNCHANGED planVars
    /\ UNCHANGED otherVars

\* the source is deleted
Remove(path) ==
    /\ edits < MaxEdits
    /\ edits' = edits + 1
    /\ files[path].exists
    /\ files' = [files EXCEPT ![path] = NoFile]
    /\ UNCHANGED <<backup, now, redis_on, config, memory_cache, redis_store, disk,
                   stats, rt>>
    /\ UNCHANGED poolVars
    /\ UNCHANGED w
    /\ UNCHANGED execVars
    /\ UNCHANGED planVars
    /\ UNCHANGED otherVars

Docs ==
    [pages : 0 .. MaxPages,
     size : {"upto_10MB", "over_10MB", "over_100MB"},
     exists : {TRUE}]
      \cup [pages : {0}, size : {"upto_10MB"}, exists : {FALSE}]

\* the source is restored from a copy made at the start, mtime preserved
Revert(path) ==
    /\ files[path] # backup[path]
    /\ files' = [files EXCEPT ![path] = backup[path]]
    /\ UNCHANGED <<edits, backup, now, redis_on, config, memory_cache, redis_store,
                   disk, stats, rt>>
    /\ UNCHANGED poolVars
    /\ UNCHANGED w
    /\ UNCHANGED execVars
    /\ UNCHANGED planVars
    /\ UNCHANGED otherVars

\* ---------------------------------------------------------------- specs
ExecIdle ==
    /\ page_ranges = <<>>
    /\ task_queue = <<>>
    /\ unfinished = 0
    /\ results = <<>>
    /\ processed_tasks = {}
    /\ exec_count = <<>>
    /\ phase = "idle"

HistIdle ==
    /\ last = NoOp
    /\ hist = <<>>
    /\ heal = HealInit(nkeys)
    /\ observe = "none"

PlanIdle ==
    /\ doc = NoDoc
    /\ strategy = "none"

AsmIdle ==
    /\ pdf_text = NoText
    /\ arrival = <<>>
    /\ combined = NoCombined
    /\ truncated = NoTruncation
    /\ locking = NoLocking

WrapperIdle == wrapper = NoWrapper

\* no material has files
PhaseIdle ==
    /\ groups = [mid \in Mids |-> "none"]
    /\ materials = [mid \in Mids |-> "None"]
    /\ futures = [mid \in Mids |-> "none"]
    /\ yielded = {}
    /\ unfinished_futures = {}
    /\ total_processed = 0
    /\ counted = [mid \in Mids |-> 0]
    /\ group_index = 1
    /\ main = "finished"

OtherIdle ==
    /\ AsmIdle
    /\ WrapperIdle
    /\ PhaseIdle

\* SmartCacheManager.__init__ on an empty cache directory
CacheEmpty ==
    /\ edits = 0
    /\ backup = files
    /\ now = 0
    /\ memory_cache = <<>>
    /\ redis_store = EmptyStore
    /\ disk = EmptyStore
    /\ stats = StatsZero
    /\ rt = NoRoundTrip

CacheIdle ==
    /\ files = [path \in Sources |-> SourceFile(HashThresholdMB)]
    /\ redis_on = FALSE
    /\ config = SmallConfig
    /\ CacheEmpty

PoolInit ==
    /\ nkeys \in 1 .. MaxKeys
    /\ rot = RotatorInit(nkeys)
    /\ last = NoOp
    /\ hist = <<>>
    /\ heal = HealInit(nkeys)
    /\ observe \in {"ops", "heal", "order"}
    /\ w = <<>>
    /\ ExecIdle
    /\ PlanIdle
    /\ OtherIdle
    /\ CacheIdle

PoolNext ==
    \/ Acquire
    \/ \E k \in Keys : Fail(k)
    \/ \E k \in Keys : Succeed(k)

\* the rotator driven through its public API by arbitrary callers
SpecPool == PoolInit /\ [][PoolNext]_vars

CallsInit ==
    /\ nkeys \in 1 .. MaxKeys
    /\ rot = RotatorInit(nkeys)
    /\ HistIdle
    /\ w = [i \in 1 .. NumCallers |-> Thread("ready")]
    /\ ExecIdle
    /\ PlanIdle
    /\ OtherIdle
    /\ CacheIdle

CallerStep(i) == RC_Begin(i) \/ RotatedCall(i)

CallsNext ==
    \/ \E i \in DOMAIN w : RC_Begin(i)
    \/ \E i \in DOMAIN w : RC_Acquire(i)
    \/ \E i \in DOMAIN w : RC_Success(i)
    \/ \E i \in DOMAIN w : RC_CallFails(i)
    \/ \E i \in DOMAIN w : RC_ReportError(i)

\* threads that keep issuing calls through _rotated_api_call; every thread
\* that can take a step eventually does
SpecCalls ==
    /\ CallsInit
    /\ [][CallsNext]_vars
    /\ \A i \in 1 .. NumCallers : WF_vars(CallerStep(i))

RetryInit ==
    /\ nkeys \in RetryMinKeys .. MaxKeys
    /\ rot = RotatorInit(nkeys)
    /\ last = NoOp
    /\ hist = <<>>
    /\ heal = HealInit(nkeys)
    /\ observe = "retry"
    /\ w = [i \in 1 .. NumCallers |-> Thread("ready")]
    /\ ExecIdle
    /\ PlanIdle
    /\ OtherIdle
    /\ CacheIdle

\* the same callers, on a pool of several credentials, with the failed
\* attempt of each call remembered
SpecRetry ==
    /\ RetryInit
    /\ [][CallsNext]_vars
    /\ \A i \in 1 .. NumCallers : WF_vars(CallerStep(i))

\* page_ranges as the coordinator enqueued them (lines 1240-1247) and the
\* worker threads it started (lines 1308-1317); the ranges are consecutive
\* chunks of the smallest chunk size
ExecInit ==
    /\ nkeys \in 1 .. MaxExecKeys
    /\ rot = RotatorInit(nkeys)
    /\ HistIdle
    /\ PlanIdle
    /\ OtherIdle
    /\ CacheIdle
    /\ \E ntasks \in 1 .. MaxTasks :
          /\ page_ranges = SplitPdfPages(ntasks * MinChunkSize, MinChunkSize)
          /\ task_queue = [t \in 1 .. ntasks |-> t - 1]
          /\ unfinished = ntasks
          /\ exec_count = [t \in 0 .. (ntasks - 1) |-> 0]
          /\ w = [i \in 1 .. max_workers(ntasks, nkeys) |-> Thread("idle")]
    /\ results = <<>>
    /\ processed_tasks = {}
    /\ phase = "running"

ExecNext ==
    \/ \E i \in DOMAIN w : W_Get(i)
    \/ \E i \in DOMAIN w : W_Exit(i)
    \/ \E i \in DOMAIN w : W_Mark(i)
    \/ \E i \in DOMAIN w : W_Store(i)
    \/ \E i \in DOMAIN w : W_TaskDone(i)
    \/ \E i \in DOMAIN w : RC_Acquire(i)
    \/ \E i \in DOMAIN w : RC_Success(i)
    \/ \E i \in DOMAIN w : RC_CallFails(i)
    \/ \E i \in DOMAIN w : RC_ReportError(i)
    \/ C_Join

\* one run of _extract_pdf_pages_concurrent
SpecExec == ExecInit /\ [][ExecNext]_vars

PlanInit ==
    /\ nkeys \in 1 .. MaxKeys
    /\ rot = RotatorInit(nkeys)
    /\ HistIdle
    /\ w = <<>>
    /\ ExecIdle
    /\ PlanIdle
    /\ OtherIdle
    /\ CacheIdle

PlanNext ==
    \/ \E k \in Keys : Fail(k)
    \/ \E d \in Docs : ExtractPdfWithAI(d)
    \/ ExtractReturn

\* documents arrive at _extract_pdf_with_ai while credentials fail
SpecPlan == PlanInit /\ [][PlanNext]_vars

\* a memory tier filled by n sets under the prefixes of EvictPrefixes,
\* entry i last accessed at hour last_access[i]
FilledMemory(n, last_access) ==
    [i \in 1 .. n |->
        [key   |-> GetCacheKey(FileHash(1), EvictPrefixes[i]),
         entry |-> [content      |-> 1,
                    file_hash    |-> FileHash(1),
                    file_size    |-> files[1].size,
                    file_mtime   |-> files[1].mtime,
                    cache_time   |-> 0,
                    access_count |-> 1 + last_access[i],
                    last_access  |-> last_access[i]]]]

\* a cache directory found at start-up: file i written at hour mtime[i]
\* with size[i] MB
FilledDisk(n, size, mtime) ==
    [k \in {GetCacheKey(FileHash(1), EvictPrefixes[i]) : i \in 1 .. n} |->
        LET i == CHOOSE j \in 1 .. n :
                    k = GetCacheKey(FileHash(1), EvictPrefixes[j])
        IN  [entry |-> [content      |-> size[i],
                        file_hash    |-> FileHash(1),
                        file_size    |-> files[1].size,
                        file_mtime   |-> files[1].mtime,
                        cache_time   |-> mtime[i],
                        access_count |-> 1,
                        last_access  |-> mtime[i]],
             mtime |-> mtime[i]]]

\* a manager whose memory tier is full: every entry was set once and some
\* were read again later; every cache-file write failed
FullMemoryInit ==
    /\ redis_on = FALSE
    /\ \E n \in FullMemorySizes :
          /\ config = [max_memory_items |-> n,
                       max_disk_size_mb |-> DefaultMaxDiskSizeMB,
                       ops_before |-> n]
          /\ \E last_access \in [1 .. n -> 0 .. 1] :
                memory_cache = FilledMemory(n, last_access)
          /\ stats = [StatsZero EXCEPT !.files_cached = n]
    /\ redis_store = EmptyStore
    /\ disk = EmptyStore

\* a manager started on a cache directory that earlier runs left behind,
\* within the limit
FilledDiskInit ==
    /\ redis_on = FALSE
    /\ config = [max_memory_items |-> 1,
                 max_disk_size_mb |-> EvictMaxDiskSizeMB,
                 ops_before |-> 0]
    /\ memory_cache = <<>>
    /\ redis_store = EmptyStore
    /\ \E n \in 0 .. MaxDiskFiles :
       \E size \in [1 .. n -> Contents], mtime \in [1 .. n -> 0 .. 1] :
          /\ disk = FilledDisk(n, size, mtime)
          /\ DiskSize(disk) <= EvictMaxDiskSizeMB
    /\ stats = StatsZero

EvictInit ==
    /\ nkeys = 1
    /\ rot = RotatorInit(nkeys)
    /\ last = NoOp
    /\ hist = <<>>
    /\ heal = HealInit(nkeys)
    /\ observe = "evict"
    /\ w = <<>>
    /\ ExecIdle
    /\ PlanIdle
    /\ OtherIdle
    /\ files = [path \in Sources |-> SourceFile(HashThresholdMB)]
    /\ edits = 0
    /\ backup = files
    /\ now = 1
    /\ rt = NoRoundTrip
    /\ (FullMemoryInit \/ FilledDiskInit)

EvictNext ==
    \/ \E path \in Sources, content \in Contents, prefix \in EvictSetPrefixes :
          CacheSet(path, content, prefix)
    \/ \E path \in Sources, prefix \in EvictGetPrefixes :
          CacheGet(path, prefix)

\* set and get on a manager whose memory tier is full or whose cache
\* directory is close to its limit
SpecEvict == EvictInit /\ [][EvictNext]_vars

\* a manager with a remote tier, started on a cache directory that is empty
\* or holds one file of an earlier run
TiersInit ==
    /\ nkeys = 1
    /\ rot = RotatorInit(nkeys)
    /\ last = NoOp
    /\ hist = <<>>
    /\ heal = HealInit(nkeys)
    /\ observe = "tiers"
    /\ w = <<>>
    /\ ExecIdle
    /\ PlanIdle
    /\ OtherIdle
    /\ files = [path \in Sources |-> SourceFile(HashThresholdMB)]
    /\ edits = 0
    /\ backup = files
    /\ now = 0
    /\ rt = NoRoundTrip
    /\ redis_on = TRUE
    /\ config = SmallConfig
    /\ memory_cache = <<>>
    /\ redis_store = EmptyStore
    /\ \E n \in 0 .. 1, size \in Contents :
          disk = FilledDisk(n, [i \in 1 .. n |-> size], [i \in 1 .. n |-> 0])
    /\ stats = StatsZero

TiersNext ==
    \/ \E path \in Sources, content \in Contents, prefix \in EvictSetPrefixes :
          CacheSet(path, content, prefix)
    \/ \E path \in Sources, prefix \in EvictSetPrefixes :
          CacheGet(path, prefix)
    \/ Tick
    \/ \E path \in Sources : Remove(path)

\* set and get while calls to the remote tier and reads and writes of cache
\* files may fail, time passes and the source may be deleted
SpecTiers == TiersInit /\ [][TiersNext]_vars

SplitNext ==
    \/ \E d \in Docs : ExtractPdfWithConcurrentPages(d)
    \/ ConcurrentPagesReturn

\* documents arrive at _extract_pdf_with_concurrent_pages
SpecSplit == PlanInit /\ [][SplitNext]_vars

CacheInit ==
    /\ nkeys = 1
    /\ rot = RotatorInit(nkeys)
    /\ HistIdle
    /\ w = <<>>
    /\ ExecIdle
    /\ PlanIdle
    /\ OtherIdle
    /\ files \in [Sources -> {SourceFile(size) : size \in FileSizes}]
    /\ redis_on \in BOOLEAN
    /\ config = SmallConfig
    /\ CacheEmpty

CacheNext ==
    \/ \E path \in Sources, content \in Contents, prefix \in Prefixes :
          CacheSet(path, content, prefix)
    \/ \E path \in Sources, prefix \in Prefixes : CacheGet(path, prefix)
    \/ Tick
    \/ \E path \in Sources : Rewrite(path)
    \/ \E path \in Sources : Touch(path)
    \/ \E path \in Sources : Resize(path)
    \/ \E path \in Sources : Remove(path)
    \/ \E path \in Sources : Revert(path)

\* the cache used through its public API while time passes and the source
\* file changes; the source starts as a file hashed whole or as a larger one
SpecCache == CacheInit /\ [][CacheNext]_vars

\* the documents whose ranges are assembled: a long one of ordinary text
\* read with two keys, and short ones of dense, very dense and sparse text
\* read with three keys
AsmInputs ==
    {[pages |-> MaxAsmPages, keys |-> 2,
      chars_per_page |-> (2 * CharsPerPage) \div 3, runs |-> 0],
     [pages |-> SplitPageThreshold + MinChunkSize, keys |-> 3,
      chars_per_page |-> CharsPerPage, runs |-> 0],
     [pages |-> SplitPageThreshold + 1, keys |-> 3,
      chars_per_page |-> 3 * CharsPerPage, runs |-> 1],
     [pages |-> SplitPageThreshold + 1, keys |-> 3,
      chars_per_page |-> CharsPerPage \div 100, runs |-> 1]}

\* _extract_pdf_pages_concurrent is called with the ranges that
\* _extract_pdf_with_concurrent_pages planned
AsmInit ==
    /\ \E d \in AsmInputs :
          /\ nkeys = d.keys
          /\ page_ranges = PlanPageRanges(d.pages, d.keys)
          /\ pdf_text = [chars_per_page |-> d.chars_per_page,
                         runs |-> d.runs, filename |-> FilenameLen]
    /\ rot = RotatorInit(nkeys)
    /\ HistIdle
    /\ w = <<>>
    /\ PlanIdle
    /\ CacheIdle
    /\ task_queue = <<>>
    /\ unfinished = Len(page_ranges)
    /\ results = <<>>
    /\ processed_tasks = {}
    /\ exec_count = [t \in TaskIds |-> 0]
    /\ phase = "running"
    /\ arrival = <<>>
    /\ combined = NoCombined
    /\ truncated = NoTruncation
    /\ locking = NoLocking
    /\ WrapperIdle
    /\ PhaseIdle

AsmNext ==
    \/ \E t \in TaskIds : W_Record(t)
    \/ C_Assemble
    \/ C_Interrupted

\* the results of one document are recorded and assembled
SpecAssemble == AsmInit /\ [][AsmNext]_vars

\* the lengths of the contents given to _smart_truncate_content and its
\* arguments: the values every call site passes (the defaults) and smaller
\* ones, the head and the tail together within max_length
TruncateLengths ==
    {0, 1, 10, 11, 12, head_size, 2 * head_size, 2 * head_size + 1,
     max_length - 1, max_length, max_length + 1, max_length + CharsPerPage}
TruncateMaxLengths == {10, 2 * head_size, max_length}
TruncateHeadSizes == {0, 5, head_size}
TruncateTailSizes == {0, 5, tail_size}

TruncateInit ==
    /\ nkeys = 1
    /\ rot = RotatorInit(nkeys)
    /\ HistIdle
    /\ w = <<>>
    /\ ExecIdle
    /\ PlanIdle
    /\ CacheIdle
    /\ pdf_text = NoText
    /\ arrival = <<>>
    /\ combined = NoCombined
    /\ locking = NoLocking
    /\ WrapperIdle
    /\ PhaseIdle
    /\ \E n \in TruncateLengths, maxlen \in TruncateMaxLengths,
          head \in TruncateHeadSizes, tail \in TruncateTailSizes :
          /\ head + tail <= maxlen
          /\ truncated = [NoTruncation EXCEPT
                             !.pc = "called",
                             !.content = Original(n),
                             !.max_length = maxlen,
                             !.head_size = head,
                             !.tail_size = tail]

TruncateNext == SmartTruncateCall \/ SmartTruncateAgain

\* _smart_truncate_content is applied to a text and then to its result
SpecTruncate == TruncateInit /\ [][TruncateNext]_vars

\* the lengths of the texts extracted from the files of a material: none,
\* short, long, just at the per-file limit and beyond it
FileTexts ==
    {0, CharsPerPage \div 10, (12 * CharsPerPage) \div 5, 4 * CharsPerPage,
     5 * CharsPerPage}

FileLists == UNION {[1 .. n -> FileTexts] : n \in 0 .. MaxFilesPerClass}

\* _extract_single_file_content_wrapper is called with the files of a
\* material
WrapperInit ==
    /\ nkeys \in {1, MaxKeys}
    /\ rot = RotatorInit(nkeys)
    /\ HistIdle
    /\ w = <<>>
    /\ ExecIdle
    /\ PlanIdle
    /\ CacheIdle
    /\ AsmIdle
    /\ PhaseIdle
    /\ \E large \in FileLists, medium \in FileLists, small \in FileLists :
          wrapper = [NoWrapper EXCEPT !.pc = "called",
                                      !.large_files = large,
                                      !.medium_files = medium,
                                      !.small_files = small]

CapsInit == AsmInit \/ WrapperInit

CapsNext == AsmNext \/ WrapperReturn

\* a document is assembled from its ranges, or a material from its files
SpecCaps == CapsInit /\ [][CapsNext]_vars

\* process_materials_from_zip after the files were mapped to materials
\* and the materials to groups
PhasesInit ==
    /\ nkeys \in 1 .. MaxKeys
    /\ rot = RotatorInit(nkeys)
    /\ HistIdle
    /\ w = <<>>
    /\ ExecIdle
    /\ PlanIdle
    /\ CacheIdle
    /\ AsmIdle
    /\ WrapperIdle
    /\ groups \in [Mids -> {"large", "medium", "small", "none"}]
    /\ materials = [mid \in Mids |-> "None"]
    /\ futures = [mid \in Mids |-> "none"]
    /\ yielded = {}
    /\ unfinished_futures = {}
    /\ total_processed = 0
    /\ counted = [mid \in Mids |-> 0]
    /\ group_index = 1
    /\ main = "submit"

MainStep ==
    \/ P_Submit
    \/ \E mid \in Mids : P_Collect(mid)
    \/ P_Timeout
    \/ P_Fallback
    \/ P_Exit

PhasesNext ==
    \/ MainStep
    \/ \E mid \in Mids : X_Start(mid)
    \/ \E mid \in Mids : X_Return(mid)

\* the main thread goes on whenever it can, the ceiling of as_completed
\* passes, a free worker thread starts the next future, and a wrapper that
\* does not hang returns
SpecPhases ==
    /\ PhasesInit
    /\ [][PhasesNext]_vars
    /\ WF_vars(MainStep)
    /\ \A mid \in Mids : WF_vars(X_Start(mid))
    /\ \A mid \in Mids : WF_vars(X_Return(mid))

Init == PoolInit

Next == PoolNext

Spec == Init /\ [][Next]_vars

\* ------------------------------------------------------- rotator claims
Available == {k \in Keys : k \notin rot.blacklisted}

\* steps forward from a to b around the key list; a full turn from a to a
CyclicDist(a, b) == IF b = a THEN nkeys ELSE (b - a + nkeys) % nkeys

\* the non-blacklisted key that follows k in cyclic list order
CyclicSuccessor(k) ==
    CHOOSE j \in Available :
        \A i \in Available : CyclicDist(k, j) <= CyclicDist(k, i)

\* C5: while the blacklist stays fixed and leaves a credential available,
\* get_next_client returns only non-blacklisted credentials, and each
\* return is the cyclic successor, among the non-blacklisted credentials, of
\* the previous return (so between two returns of one credential every
\* other non-blacklisted credential is returned exactly once).
C5_RoundRobin ==
    \A i \in 1 .. Len(hist) :
        /\ hist[i] \in Available
        /\ i < Len(hist) => hist[i + 1] = CyclicSuccessor(hist[i])

\* two consecutive returns that skip over a blacklisted credential
C5_Witness ==
    /\ Len(hist) = 2
    /\ Cardinality(Available) >= 2
    /\ rot.blacklisted # {}
    /\ hist[2] # (hist[1] + 1) % nkeys

C9_ResetReturnsFirst ==
    (last.op = "get" /\ last.reset) => last.key = 0

\* C9 amended: such a call clears the blacklist and all error counters and
\* returns the credential at the rotation cursor (the only credential when
\* there is one); the cursor then stands one past the returned credential.
C9_ResetResumesAtCursor ==
    (last.op = "get" /\ last.reset) =>
        /\ rot.blacklisted = {}
        /\ \A k \in Keys : rot.error_count[k] = 0
        /\ last.key = (IF nkeys = 1 THEN 0 ELSE last.cursor)
        /\ nkeys > 1 => rot.current_index = (last.key + 1) % nkeys

\* a reset happened with the cursor away from the start of the list
C9_Witness ==
    /\ last.op = "get"
    /\ last.reset
    /\ last.cursor # 0
    /\ last.key = last.cursor

\* ------------------------------------------------------ executor claims
Markers == {"fail_marker", "error_msg"}

\* tasks a worker thread holds between claiming and task_done()
HeldBy(i) == IF w[i].task = NoTask THEN {} ELSE {w[i].task}

C2_ClaimedOnce ==
    /\ \A t \in TaskIds : exec_count[t] <= 1
    /\ \A i, j \in DOMAIN w : (i # j) => HeldBy(i) \cap HeldBy(j) = {}
    /\ \A i \in DOMAIN w : HeldBy(i) \cap QueueSet = {}
    /\ DOMAIN results \cap QueueSet = {}
    /\ Cardinality(QueueSet) = Len(task_queue)

\* a task failed and was recorded while another task is still queued
C2_Witness ==
    /\ phase = "running"
    /\ task_queue # <<>>
    /\ \E t \in DOMAIN results : results[t].content \in Markers

\* ----------------------------------------------------- self-healing claim
\* C8 as stated: while calls keep being issued through _rotated_api_call, a
\* blacklisted credential eventually leaves the blacklist.
C8_BlacklistedEventuallyReturns ==
    \A k \in 0 .. (MaxKeys - 1) :
        (k \in Keys /\ k \in rot.blacklisted) ~> (k \notin rot.blacklisted)

\* ------------------------------------------------------- planning claims
RangeSize(r) == r[2] - r[1] + 1

RECURSIVE SumSizes(_)
SumSizes(rs) == IF rs = <<>> THEN 0 ELSE RangeSize(Head(rs)) + SumSizes(Tail(rs))

\* C3: for a page count above 8 and at least 2 credentials, the planned
\* ranges start at page 1, end at the last page, each range starts one page
\* after the previous one ends, and the range sizes sum to the page count.
C3_RangesCoverExactly ==
    (strategy # "rejected" /\ doc.pages > SplitPageThreshold /\ nkeys >= 2) =>
        /\ strategy = "split"
        /\ Len(page_ranges) >= 1
        /\ page_ranges[1][1] = 1
        /\ page_ranges[Len(page_ranges)][2] = doc.pages
        /\ \A c \in 1 .. Len(page_ranges) :
              page_ranges[c][1] <= page_ranges[c][2]
        /\ \A c \in 1 .. (Len(page_ranges) - 1) :
              page_ranges[c + 1][1] = page_ranges[c][2] + 1
        /\ SumSizes(page_ranges) = doc.pages

\* a plan whose last range is shorter than the others
C3_Witness ==
    /\ strategy = "split"
    /\ Len(page_ranges) >= 3
    /\ RangeSize(page_ranges[Len(page_ranges)]) < RangeSize(page_ranges[1])

\* C4 as stated: a document is split exactly when it has more than 8 pages and
\* more than one credential is not blacklisted; otherwise it is one
\* whole-document unit.
C4_SplitIffUsableCredentials ==
    strategy \in {"split", "file_api", "direct"} =>
        /\ strategy = "split" <=>
              (doc.pages > SplitPageThreshold /\ doc.usable > 1)
        /\ strategy # "split" => page_ranges = <<>>

ServedIsFresh ==
    /\ rt.stage \in {"get", "got"} =>
          /\ rt.tier # "none" => rt.fresh
          /\ rt.tier = "none" <=> rt.result = NoContent

\* C11 as stated: get never returns a stale entry, from any tier (recorded
\* size or mtime other than the source's, or older than max age), and
\* changing the source's size between set and get yields a miss.
C11_SizeChangeMisses ==
    /\ ServedIsFresh
    /\ (rt.stage = "got" /\ ~rt.size_same) => rt.result = NoContent

\* C11 amended: get never returns a stale entry, from any tier, and a size
\* change between set and get yields a miss unless the change restored
\* the source to an earlier state of it.
C11_StaleNeverServed ==
    /\ ServedIsFresh
    /\ (rt.stage = "got" /\ ~rt.size_same /\ ~rt.restored) =>
          rt.result = NoContent

\* the source changed size after a set, with mtime and the cached entry in
\* place, and the get that followed missed
C11_Witness ==
    /\ rt.stage = "got"
    /\ ~rt.size_same
    /\ ~rt.restored
    /\ rt.young
    /\ \E path \in Sources : files[path].exists
    /\ memory_cache # <<>>
    /\ rt.result = NoContent

\* ------------------------------------------------------ assembly claims
Assembled == phase = "assembled"

AscendingStarts(parts) ==
    \A i, j \in 1 .. Len(parts) :
        i < j => parts[i].start_page < parts[j].start_page

\* the task ids of S in ascending order
RECURSIVE AscendingIds(_)
AscendingIds(S) ==
    IF S = {} THEN <<>>
    ELSE <<MinOf(S)>> \o AscendingIds(S \ {MinOf(S)})

\* C12: in whatever order the workers recorded their results, the
\* assembled document lists the ranges by ascending start page, and it is
\* the document the same results give when recorded in task order: the
\* output depends on the set of results only.
C12_OrderOfArrivalIrrelevant ==
    Assembled =>
        /\ AscendingStarts(combined.parts)
        /\ combined = AssemblePages(results, AscendingIds(DOMAIN results),
                                    page_ranges, pdf_text)

\* every result was recorded, in descending order of start page, and at
\* least three ranges were merged
C12_Witness ==
    /\ Assembled
    /\ Len(combined.parts) >= 3
    /\ DOMAIN results = TaskIds
    /\ \A j \in 1 .. Len(arrival) : arrival[j] = Len(arrival) - j

\* the planned ranges that have no result
Unrecorded == TaskIds \ DOMAIN results

\* the ranges that are neither the first nor the last of the plan
InteriorTasks == TaskIds \ {0, Len(page_ranges) - 1}

PagesOf(t) == PageRun(page_ranges[t + 1][1], page_ranges[t + 1][2] + 1)

\* C13: when the results hold every planned range but one interior range,
\* the assembly completes with a merged document whose missing-pages list
\* is the pages of that range, no more and no fewer.
C13_InteriorGapListed ==
    \A t \in InteriorTasks :
        (Assembled /\ Unrecorded = {t}) =>
            /\ combined.kind = "merged"
            /\ combined.missing_pages = PagesOf(t)

\* the gap is listed whenever the merge loop reaches the range behind it
C13_GapListedWhenReached ==
    \A t \in InteriorTasks :
        (/\ Assembled
         /\ Unrecorded = {t}
         /\ \E j \in 1 .. Len(combined.parts) :
               combined.parts[j].start_page > page_ranges[t + 1][2]) =>
            /\ combined.kind = "merged"
            /\ combined.missing_pages = PagesOf(t)

\* an interior range is the only one without a result and it is listed
C13_Witness ==
    \E t \in InteriorTasks :
        /\ Assembled
        /\ Unrecorded = {t}
        /\ combined.missing_pages = PagesOf(t)
        /\ combined.header = "missing"

Returned == wrapper.pc = "returned"

\* C14: whatever the lengths of the results, the document returned by
\* _extract_pdf_pages_concurrent is at most 500,000 characters long and
\* the content returned by _extract_single_file_content_wrapper at most
\* 300,000.
C14_WithinCaps ==
    /\ Assembled => combined.len <= max_combined_length
    /\ Returned => wrapper.len <= max_total_length

\* what is returned exceeds its cap by at most the note that the final cut
\* appends, and exceeds it only when that cut was made
C14_WithinCapsAndNote ==
    /\ Assembled =>
          /\ combined.len <= max_combined_length + FinalNoteLen
          /\ combined.len > max_combined_length => combined.final_cut
    /\ Returned =>
          /\ wrapper.len <= max_total_length + MaterialNoteLen
          /\ wrapper.len > max_total_length => wrapper.final_cut

\* a document, or a material, too long for its cap was cut at the end
C14_Witness ==
    \/ Assembled /\ combined.final_cut
    \/ Returned /\ wrapper.final_cut

EveryResultFailed ==
    /\ DOMAIN results = TaskIds
    /\ \A t \in TaskIds : results[t].content.kind \in Markers

\* C15: when every task of the document recorded an error or timeout
\* marker, the assembled document is the all-failed marker string: it is
\* neither empty nor a merged document.
C15_AllFailedIsMarked ==
    (Assembled /\ EveryResultFailed) =>
        /\ combined.kind = "all_failed"
        /\ combined.len > 0

\* the all-failed marker is returned exactly when no result was recorded,
\* and no assembled document is empty
C15_MarkedOnlyWhenNoResult ==
    Assembled =>
        /\ combined.kind = "all_failed" <=> DOMAIN results = {}
        /\ combined.len > 0

\* every task failed and the results were assembled
C15_Witness ==
    /\ Assembled
    /\ EveryResultFailed
    /\ Len(page_ranges) >= 2

\* --------------------------------------------------------- phase claims
Outcomes == {"content", "failed", "timeout", "unprocessed"}

\* the materials of the groups whose phase has ended
Ended ==
    {mid \in Mids :
        /\ groups[mid] # "none"
        /\ \/ main = "finished"
           \/ \E i \in 1 .. (group_index - 1) : mid \in GroupAt(i)}

\* C16: once a phase has ended, every material submitted in it has a
\* content that is the wrapper's content, the failure marker, the timeout
\* marker or the unprocessed marker, and was counted in total_processed
\* exactly once; between phases total_processed is the number of materials
\* of the phases that ended.
C16_OneOutcomePerJob ==
    /\ \A mid \in Ended : materials[mid] \in Outcomes /\ counted[mid] = 1
    /\ \A mid \in Mids : counted[mid] <= 1
    /\ main \in {"submit", "finished"} =>
          total_processed = Cardinality(Ended)

\* all phases ended, with a material whose content was stored, one whose
\* wrapper raised and one that got the timeout marker
C16_Witness ==
    /\ main = "finished"
    /\ \E a, b, c \in Mids :
          /\ materials[a] = "content"
          /\ materials[b] = "failed"
          /\ materials[c] = "timeout"

\* C17: every phase that started ends, whatever its worker threads do.
C17_EveryPhaseEnds ==
    \A i \in 1 .. NumGroups :
        (main = "collect" /\ group_index = i)
            ~> (main = "finished" \/ group_index > i)

Hanging == {mid \in Mids : futures[mid] = "stuck"}

\* every phase ends unless a worker thread hangs in its wrapper
C17_EndsUnlessHanging == <>(main = "finished" \/ Hanging # {})

\* the ceiling passed, the material of a hanging wrapper has its timeout
\* marker, and the main thread waits for the executor to shut down
C17_Witness ==
    /\ main = "shutdown"
    /\ \E mid \in Hanging : materials[mid] = "timeout"

SizeRank(g) == CASE g = "large" -> 1 [] g = "medium" -> 2 [] g = "small" -> 3
                 [] OTHER -> 0

Started == {mid \in Mids :
               futures[mid] \in {"running", "stuck", "done", "raised"}}

\* C20: when a material's wrapper has started, every material of a larger
\* group has its content or its marker, and none of them is queued or
\* still executed: the phases run large, medium, small and do not overlap.
C20_PhasesInOrder ==
    \A a \in Started : \A b \in Mids :
        (groups[b] # "none" /\ SizeRank(groups[b]) < SizeRank(groups[a])) =>
            /\ materials[b] \in Outcomes
            /\ futures[b] \notin {"pending", "running", "stuck"}

\* a small material is executed after a large one got the timeout marker
\* and a medium one its content
C20_Witness ==
    \E a, b, c \in Mids :
        /\ groups[a] = "small" /\ futures[a] = "running"
        /\ groups[b] = "large" /\ materials[b] = "timeout"
        /\ groups[c] = "medium" /\ materials[c] = "content"

\* --------------------------------------------------------- retry claims
\* the threads whose _rotated_api_call has ended with every attempt failed
AllAttemptsFailed ==
    {i \in DOMAIN w : /\ w[i].task # NoTask
                      /\ w[i].max_retries > 0
                      /\ w[i].failed = w[i].max_retries
                      /\ w[i].pc # "report"}

\* C18: one _rotated_api_call invokes call_func at most max_retries times;
\* when every attempt has failed the page-range task holds the failure
\* marker as its content and the worker records it as the task's result;
\* a worker thread ends only because the queue is empty.
C18_RetryCeiling ==
    /\ \A i \in DOMAIN w :
          /\ w[i].calls <= w[i].max_retries
          /\ w[i].failed <= w[i].calls
          /\ w[i].pc = "exited" => task_queue = <<>>
    /\ \A i \in AllAttemptsFailed :
          /\ w[i].pc \in {"store", "done"}
          /\ w[i].out = "fail_marker"
          /\ w[i].pc = "done" =>
                /\ w[i].task \in DOMAIN results
                /\ results[w[i].task].content = "fail_marker"

\* a worker whose two attempts both failed has recorded the failure marker
C18_Witness ==
    \E i \in DOMAIN w :
        /\ i \in AllAttemptsFailed
        /\ w[i].calls = PageRangeMaxRetries
        /\ w[i].pc = "done"
        /\ results[w[i].task].content = "fail_marker"

NonBlacklisted == Keys \ rot.blacklisted

\* the observed thread is about to retry after an invalid-key error while
\* at least two credentials are not blacklisted
RetryAfterInvalidKey(i) ==
    /\ w[i].pc = "acquire"
    /\ w[i].err = "invalid_key"
    /\ w[i].used # NoKey
    /\ Cardinality(NonBlacklisted) >= 2

\* C19 as stated: after an invalid-key error on a call made with credential
\* k, the next attempt of the same _rotated_api_call follows without a
\* sleep and takes a credential other than k, whenever at least two
\* credentials are not blacklisted.
C19_RetryOnOtherCredential ==
    [][\A i \in DOMAIN w :
          (RetryAfterInvalidKey(i) /\ w'[i].pc = "call")
              => (w[i].slept = 0 /\ w'[i].key # w[i].used)]_vars

\* what the code keeps of it: the retry after an invalid-key error follows
\* without a sleep, and the retry after any other error follows a sleep
C19_RetryWithoutSleep ==
    \A i \in DOMAIN w :
        (w[i].pc = "acquire" /\ w[i].err # "none")
            => (w[i].slept = 0 <=> w[i].err = "invalid_key")

\* a retry after an invalid-key error on k is about to take k again, on a
\* pool where no credential is blacklisted
C19_Witness ==
    \E i \in DOMAIN w :
        /\ RetryAfterInvalidKey(i)
        /\ rot.blacklisted = {}
        /\ GetNextClient(rot, nkeys).key = w[i].used

\* ------------------------------------------------------ pool-size claims
\* C21 as stated: for every number of credentials the medium phase has fewer
\* worker threads than the large phase and the small phase fewer than the
\* medium phase.
C21_PoolShrinks ==
    /\ PhaseWorkers(2, nkeys) < PhaseWorkers(1, nkeys)
    /\ PhaseWorkers(3, nkeys) < PhaseWorkers(2, nkeys)

\* C21 amended: the pool never grows from phase to phase; the small phase
\* has fewer worker threads than the medium phase, and the medium phase has
\* fewer than the large phase unless exactly two credentials are configured,
\* when both have two. No phase runs more wrappers at once than its pool.
C21_PoolNeverGrows ==
    /\ \A n \in 1 .. MaxPoolKeys :
          /\ PhaseWorkers(3, n) < PhaseWorkers(2, n)
          /\ PhaseWorkers(2, n) <= PhaseWorkers(1, n)
          /\ PhaseWorkers(2, n) = PhaseWorkers(1, n) <=> n = 2
    /\ Cardinality(Executing) <= PhaseWorkers(group_index, nkeys)

\* with two credentials the medium phase runs two wrappers at once, as many
\* as the large phase may
C21_Witness ==
    /\ nkeys = 2
    /\ group_index = 2
    /\ Cardinality(Executing) = 2
    /\ PhaseWorkers(1, nkeys) = 2

\* ------------------------------------------------- degenerate page counts
\* the page counts _split_pdf_pages treats as unreadable
DegenerateCounts == {0 - 1, 0}

\* C22: for a page count that is not positive _split_pdf_pages returns no
\* range; when _extract_pdf_with_concurrent_pages or _split_pdf_pages
\* reads such a count, the whole document goes to
\* _extract_pdf_with_file_api, no task is on the queue and no worker
\* thread exists.
C22_DegenerateFallsBack ==
    /\ \A n \in DegenerateCounts :
       \A c \in MinChunkSize .. MaxChunkSize : SplitPdfPages(n, c) = <<>>
    /\ (strategy # "none" /\ (doc.pages <= 0 \/ doc.split_pages <= 0)) =>
          /\ strategy = "file_api"
          /\ page_ranges = <<>>
          /\ task_queue = <<>>
          /\ unfinished = 0
          /\ w = <<>>
          /\ phase = "idle"

\* the page count was readable for _extract_pdf_with_concurrent_pages and
\* unreadable for _split_pdf_pages, and the fallback was taken
C22_Witness ==
    /\ strategy = "file_api"
    /\ doc.pages > SplitPageThreshold
    /\ doc.split_pages = 0
    /\ task_queue = <<>>
    /\ w = <<>>

\* ------------------------------------------------------ chunk-size claim
\* C23: a document of N > 8 pages planned with c >= 2 credentials is cut
\* with the chunk size min(6, max(2, N div (2*c))): no range has more than
\* 6 pages, every range but the last has exactly the chunk size, the last
\* has at most the chunk size, and there are at least 2 ranges.
C23_ChunkSizeUsed ==
    (strategy # "rejected" /\ doc.pages > 8 /\ nkeys >= 2) =>
        LET chunk == Min2(6, Max2(2, doc.pages \div (2 * nkeys)))
        IN  /\ strategy = "split"
            /\ Len(page_ranges) >= 2
            /\ \A r \in 1 .. Len(page_ranges) :
                  /\ RangeSize(page_ranges[r]) <= 6
                  /\ RangeSize(page_ranges[r]) <= chunk
                  /\ RangeSize(page_ranges[r]) >= 1
            /\ \A r \in 1 .. (Len(page_ranges) - 1) :
                  RangeSize(page_ranges[r]) = chunk

\* a plan cut at the upper limit: N div (2*c) is above 6 and the ranges
\* have 6 pages, the last one fewer
C23_Witness ==
    /\ strategy = "split"
    /\ doc.pages \div (2 * nkeys) > 6
    /\ RangeSize(page_ranges[1]) = 6
    /\ RangeSize(page_ranges[Len(page_ranges)]) < 6

\* ------------------------------------------------------- eviction claims
MemKeys(mem) == {mem[i].key : i \in 1 .. Len(mem)}

\* the set just made found the memory tier full
SetOnFullMemory ==
    /\ rt.stage = "set"
    /\ Len(rt.mem_before) >= max_memory_items

\* C24: a set that finds n >= max_memory_items entries in the memory tier
\* evicts exactly max(1, n div 4) of them before it inserts; no evicted
\* entry was accessed later than an entry that stayed; the entries that
\* stayed are unchanged and the new entry is in the memory tier. A set that
\* finds fewer entries evicts none.
C24_EvictsOldestQuarter ==
    rt.stage = "set" =>
        LET before == rt.mem_before
            kept   == rt.mem_kept
            n      == Len(before)
            Stays(i)  == before[i].key \in MemKeys(kept)
        IN  IF n >= max_memory_items
            THEN /\ Len(kept) = n - Max2(1, n \div 4)
                 /\ \A j \in 1 .. Len(kept) :
                       \E i \in 1 .. n : before[i] = kept[j]
                 /\ \A i, j \in 1 .. n :
                       (~Stays(i) /\ Stays(j)) =>
                           before[i].entry.last_access
                               <= before[j].entry.last_access
                 /\ MemKeys(kept) \subseteq MemKeys(memory_cache)
                 /\ MemHas(memory_cache, GetCacheKey(rt.hash, rt.prefix))
                 /\ Len(memory_cache) <= Len(kept) + 1
            ELSE kept = before

\* a set on a full memory tier of 8 entries evicted 2 entries last accessed
\* at hour 0 and kept 6, one of them inserted first and accessed at hour 1
C24_Witness ==
    /\ SetOnFullMemory
    /\ Len(rt.mem_before) = 8
    /\ Len(rt.mem_kept) = 6
    /\ rt.mem_before[1].entry.last_access = 1
    /\ rt.mem_before[1].key \in MemKeys(rt.mem_kept)
    /\ \E i \in 2 .. 8 :
          /\ rt.mem_before[i].entry.last_access = 0
          /\ rt.mem_before[i].key \notin MemKeys(rt.mem_kept)

\* the cache files the set just made deleted
Deleted == DOMAIN rt.disk_written \ DOMAIN disk

SetKey == GetCacheKey(rt.hash, rt.prefix)
SetEntry ==
    [content      |-> rt.content,
     file_hash    |-> rt.hash,
     file_size    |-> rt.size,
     file_mtime   |-> rt.mtime,
     cache_time   |-> rt.at,
     access_count |-> 1,
     last_access  |-> rt.at]
InMemory(key, e) ==
    /\ MemHas(memory_cache, key)
    /\ memory_cache[MemIdx(memory_cache, key)].entry = e
FileWritten(key, e) ==
    /\ key \in DOMAIN rt.disk_written
    /\ rt.disk_written[key] = [entry |-> e, mtime |-> rt.at]

\* C26 as stated: every set writes its entry to the memory tier and to a
\* cache file, and a set whose remote write failed returns True with the
\* same memory entry and cache file.
C26_SetWritesMemoryAndDisk ==
    /\ rt.stage # "set_failed"
    /\ rt.stage = "set" =>
          /\ InMemory(SetKey, SetEntry)
          /\ FileWritten(SetKey, SetEntry)

\* C26 amended: a set that can stat its source returns True and puts its
\* entry in the memory tier, after the eviction a full tier asks for,
\* whether or not the remote write or the cache-file write failed; it
\* writes the cache file unless that write itself failed; a set that
\* cannot stat its source returns False and stores nothing in any tier.
C26_SetStoresWhatItCan ==
    /\ [](rt.stage = "set" =>
            /\ InMemory(SetKey, SetEntry)
            /\ memory_cache = MemPut(rt.mem_kept, SetKey, SetEntry)
            /\ "file" \notin rt.failed => FileWritten(SetKey, SetEntry)
            /\ "stat" \notin rt.failed)
    /\ [](rt.stage = "set_failed" => rt.failed = {"stat"})
    /\ [][(rt'.stage = "set_failed" /\ rt' # rt) =>
            UNCHANGED <<memory_cache, redis_store, disk, stats>>]_vars

\* a set whose remote write failed returned True: its entry replaced the
\* one in the memory tier and its cache file is in the cache directory,
\* while the remote tier has nothing under the key
C26_Witness ==
    /\ rt.stage = "set"
    /\ rt.failed = {"remote"}
    /\ MemHas(rt.mem_before, SetKey)
    /\ InMemory(SetKey, SetEntry)
    /\ FileWritten(SetKey, SetEntry)
    /\ SetKey \in DOMAIN disk
    /\ SetKey \notin DOMAIN redis_store

\* this step is a get that found a cache file and could not load it
LoadFailedStep ==
    /\ stats'.misses = stats.misses + 1
    /\ "load" \in rt'.failed
\* the key of the get that rt' records
GetKeyNext == GetCacheKey(FileHash(rt'.path), rt'.prefix)
\* the step took the file of key away and left the other cache files alone
OnlyFileDeleted(key) ==
    /\ key \in DOMAIN disk
    /\ DOMAIN disk' = DOMAIN disk \ {key}
    /\ \A k \in DOMAIN disk' : disk'[k] = disk[k]
\* a set that followed a failed load of its key is read back
ReadBackAfterLoadFailure ==
    (/\ rt.stage = "got"
     /\ rt.after_load_failure
     /\ rt.stat_same
     /\ rt.print_same
     /\ rt.young) => rt.result = rt.content

\* C27 as stated: a get whose cache file fails to load deletes that file
\* and returns a miss; the memory tier and the other cache files are left
\* unchanged, and a set then a get of the same key returns what was set.
C27_LoadFailureTouchesOnlyTheFile ==
    /\ [][LoadFailedStep =>
            /\ rt'.result = NoContent
            /\ OnlyFileDeleted(GetKeyNext)
            /\ memory_cache' = memory_cache]_vars
    /\ []ReadBackAfterLoadFailure

\* C27 amended: such a get deletes the file and returns a miss; the other
\* cache files are unchanged and so are the memory entries of other keys,
\* while an expired or outdated memory entry of the same key has been
\* removed on the way; a set then a get of the same key returns what was
\* set.
C27_LoadFailureIsAMiss ==
    /\ [][LoadFailedStep =>
            /\ rt'.result = NoContent
            /\ OnlyFileDeleted(GetKeyNext)
            /\ memory_cache' = MemDel(memory_cache, GetKeyNext)
            /\ MemHas(memory_cache, GetKeyNext) =>
                  LET e == memory_cache[MemIdx(memory_cache,
                                               GetKeyNext)].entry
                  IN  IsExpired(e, now) \/ IsFileChanged(e, rt'.path)]_vars
    /\ []ReadBackAfterLoadFailure

\* the cache file left by an earlier run could not be loaded and was
\* deleted; the key was set again and the get that followed returned the
\* new content from the memory tier
C27_Witness ==
    /\ rt.stage = "got"
    /\ rt.after_load_failure
    /\ rt.tier = "memory"
    /\ rt.result = rt.content
    /\ rt.result # NoContent
    /\ stats.misses = 1

\* the returned content carries a note of truncation: the final cut, the
\* cut of the serial loop, or the head-and-tail cut of a file
Marked ==
    \/ wrapper.final_cut
    \/ \E i \in DOMAIN wrapper.contents : wrapper.contents[i].cut # "none"

\* C28: whenever _extract_single_file_content_wrapper leaves out a phase
\* or the rest of its serial loop because the accumulated length came
\* close to the limit of 300,000 characters, the content it returns
\* carries a truncation note.
C28_NoSilentSkip ==
    (Returned /\ wrapper.skipped # {}) => Marked

\* two large files filled four fifths of the limit; the medium file was
\* left out and the content returned has no note of any kind
C28_Witness ==
    /\ Returned
    /\ wrapper.skipped = {"medium"}
    /\ Len(wrapper.large_files) = 2
    /\ Len(wrapper.medium_files) = 1
    /\ wrapper.small_files = <<>>
    /\ Len(wrapper.contents) = 2
    /\ wrapper.len < max_total_length
    /\ ~Marked

\* the call of _smart_truncate_content has returned
Truncated == truncated.pc \in {"returned", "returned_again"}
\* the characters of the original text that the string s holds
TextChars(s) ==
    UNION {s[i].from .. s[i].to : i \in {j \in DOMAIN s : s[j].kind = "text"}}

\* C29: _smart_truncate_content returns a content of at most max_length
\* characters unchanged; of a longer one it returns the first head_size
\* characters, then a note with the number len(content) - head_size -
\* tail_size, which is the number of characters left out, then the last
\* tail_size characters; with the default arguments, applying it to its
\* own result changes nothing.
C29_HeadNoteTail ==
    LET n == StrLen(truncated.content)
        head == truncated.head_size
        tail == truncated.tail_size
        once == truncated.once
    IN  /\ (Truncated /\ n <= truncated.max_length) =>
              once = truncated.content
        /\ (Truncated /\ n > truncated.max_length) =>
              /\ once = (IF head > 0 THEN <<TextPiece(1, head)>> ELSE <<>>)
                        \o <<OmitNote(n - head - tail)>>
                        \o (IF tail > 0 THEN <<TextPiece(n - tail + 1, n)>>
                            ELSE <<>>)
              /\ Cardinality((1 .. n) \ TextChars(once)) = n - head - tail
              /\ StrLen(once) =
                    SmartTruncateContent(FileText(n), truncated.max_length,
                                         head, tail).len
        /\ (/\ truncated.pc = "returned_again"
            /\ truncated.max_length = max_length
            /\ head = head_size
            /\ tail = tail_size) => truncated.twice = once

\* a text longer than the default max_length was cut to its head, the
\* note and its tail, and the second call with the default arguments
\* returned the same
C29_Witness ==
    /\ truncated.pc = "returned_again"
    /\ truncated.max_length = max_length
    /\ truncated.head_size = head_size
    /\ truncated.tail_size = tail_size
    /\ StrLen(truncated.content) > max_length
    /\ Len(truncated.once) = 3
    /\ truncated.once[2].omitted = StrLen(truncated.content) - 2 * head_size
    /\ truncated.twice = truncated.once

\* the text of the range of task t is part of the assembled document
TextIncluded(t) ==
    \E j \in 1 .. Len(combined.parts) :
        /\ combined.parts[j].start_page = page_ranges[t + 1][1]
        /\ combined.parts[j].content.kind = "text"
\* every page of the range of task t is in the missing-pages list
Listed(t) ==
    \A page \in page_ranges[t + 1][1] .. page_ranges[t + 1][2] :
        \E j \in 1 .. Len(combined.missing_pages) :
            combined.missing_pages[j] = page

\* C30: in the merged document every planned range whose text is not part
\* of it (no result recorded, a failure marker recorded, or the result
\* dropped when the merge stopped at the length limit) has its pages in
\* the missing-pages list.
C30_MissingListComplete ==
    (Assembled /\ combined.kind = "merged") =>
        \A t \in TaskIds : ~TextIncluded(t) => Listed(t)

\* every task recorded a result, the one of an interior range a failure
\* marker; the marker was merged as a part and the document is headed as
\* continuous, with an empty missing-pages list
C30_Witness ==
    /\ Assembled
    /\ combined.kind = "merged"
    /\ Unrecorded = {}
    /\ \E t \in InteriorTasks :
          /\ results[t].content.kind = "fail_marker"
          /\ \A x \in TaskIds \ {t} : results[x].content.kind = "text"
          /\ ~TextIncluded(t)
    /\ Len(combined.parts) = Len(page_ranges)
    /\ combined.header = "continuous"
    /\ combined.missing_pages = <<>>

\* ------------------------------------------------------ failure attribution
\* C31: whenever a call made with credential k fails inside
\* _rotated_api_call, report_error is invoked with k: the key the handler
\* is about to report is the key the failed call used.
C31_ErrorBlamesUsedKey ==
    \A i \in DOMAIN w :
        (Observed(i) /\ w[i].pc = "report") => w[i].key = w[i].used

\* a call with one credential failed for the first time in the run and the
\* handler is about to report the error against another credential, which
\* no call has used
C31_Witness ==
    \E i \in DOMAIN w :
        /\ Observed(i)
        /\ w[i].pc = "report"
        /\ w[i].key # w[i].used
        /\ w[i].key \notin rot.blacklisted
        /\ \A j \in DOMAIN w : w[j].calls = (IF j = i THEN 1 ELSE 0)
        /\ \A k \in Keys : rot.error_count[k] = 0

\* ------------------------------------------- work of a running wrapper
\* What a wrapper does to the objects it shares while a worker thread
\* executes it: the three entry points of the rotator (through
\* _rotated_api_call) and cache set (lines 1886 and 1005). A running future
\* cannot be cancelled (line 792 has no effect on it), so the timeout of
\* the phase changes nothing in what the wrapper does.
X_Pool(mid) ==
    /\ futures[mid] = "running"
    /\ \/ Acquire
       \/ \E k \in Keys : Fail(k)
       \/ \E k \in Keys : Succeed(k)

X_CacheSet(mid) ==
    /\ futures[mid] = "running"
    /\ \E path \in Sources : CacheSet(path, MinOf(Contents), "")

\* the materials of one phase, with the credential pool and the cache
LateInit ==
    /\ nkeys = RetryMinKeys
    /\ rot = RotatorInit(nkeys)
    /\ last = NoOp
    /\ hist = <<>>
    /\ heal = HealInit(nkeys)
    /\ observe = "late"
    /\ w = <<>>
    /\ ExecIdle
    /\ PlanIdle
    /\ CacheIdle
    /\ AsmIdle
    /\ WrapperIdle
    /\ groups \in [Mids -> {"large", "none"}]
    /\ Cardinality({mid \in Mids : groups[mid] = "large"})
          <= PhaseWorkers(1, nkeys)
    /\ materials = [mid \in Mids |-> "None"]
    /\ futures = [mid \in Mids |-> "none"]
    /\ yielded = {}
    /\ unfinished_futures = {}
    /\ total_processed = 0
    /\ counted = [mid \in Mids |-> 0]
    /\ group_index = 1
    /\ main = "submit"

LateNext ==
    \/ MainStep
    \/ \E mid \in Mids : X_Start(mid)
    \/ \E mid \in Mids : X_Return(mid)
    \/ \E mid \in Mids : X_Pool(mid)
    \/ \E mid \in Mids : X_CacheSet(mid)

\* a phase whose wrappers use the pool and the cache while they run, before
\* and after the ceiling of the phase
SpecLate == LateInit /\ [][LateNext]_vars

\* ---------------------------------------------------------- late results
\* the wrapper of a material that has the timeout marker returns or raises
LateCompletion(mid) ==
    /\ materials[mid] = "timeout"
    /\ futures[mid] = "running"
    /\ futures'[mid] \in {"late_done", "late_raised"}
\* the pool after one operation of the rotator
PoolSteps ==
    {GetNextClient(rot, nkeys).rot}
        \cup {ReportError(rot, k) : k \in Keys}
        \cup {ReportSuccess(rot, k) : k \in Keys}

\* C32: a material that got the timeout marker at the ceiling of its phase
\* keeps it; when its wrapper finishes afterwards the result changes no
\* material's content and no count, and the pool and the cache change
\* afterwards only as they do without a timeout: by an operation of a
\* wrapper that is still running, never by the completion itself.
C32_TimeoutMarkerKept ==
    [][/\ \A mid \in Mids :
             materials[mid] = "timeout" => materials'[mid] = "timeout"
       /\ \A mid \in Mids :
             LateCompletion(mid) =>
                 /\ UNCHANGED <<materials, counted, total_processed>>
                 /\ UNCHANGED <<rot, memory_cache, redis_store, disk, stats>>
       /\ (rot' # rot \/ stats' # stats \/ disk' # disk
              \/ memory_cache' # memory_cache) =>
             /\ \E mid \in Mids : futures[mid] = "running"
             /\ UNCHANGED <<materials, counted, total_processed, futures>>
       /\ rot' # rot => rot' \in PoolSteps]_vars

\* the run is over: a material has the timeout marker and its wrapper
\* finished after that with a result; the other material of the phase has
\* its content, and the pool and the cache were used
C32_Witness ==
    /\ main = "finished"
    /\ \E mid \in Mids :
          /\ materials[mid] = "timeout"
          /\ futures[mid] = "late_done"
          /\ counted[mid] = 1
          /\ \E other \in Mids \ {mid} : materials[other] = "content"
    /\ rot # RotatorInit(nkeys)
    /\ stats.files_cached > 0

\* ------------------------------------------- the lock of the APIRotator
\* the threads that call the rotator's methods, and how many calls a run
\* makes in all
NumLockThreads == 2
MaxLockCalls == 4
LockThreads == 1 .. NumLockThreads

\* a thread outside the methods of the rotator
OutsideLock ==
    [pc |-> "idle", op |-> "none", key |-> NoKey, seen_rot |-> 0,
     seen_count |-> 0]

\* APIRotator.__init__, lines 41-49: the counters and the lock
LockingInit(n) ==
    [holder |-> 0,
     usage_count |-> [k \in 0 .. (n - 1) |-> 0],
     success_count |-> [k \in 0 .. (n - 1) |-> 0],
     th |-> [t \in LockThreads |-> OutsideLock],
     calls |-> 0, returned_get |-> 0,
     returned_success |-> [k \in 0 .. (n - 1) |-> 0],
     serial |-> RotatorInit(n)]

\* a with statement that enters without the lock
LockFree_Always(holder) == TRUE

\* "with self.lock": the lock can be taken when no thread holds it
LockFree(holder) == holder = 0

\* what the methods of the rotator leave alone
besideLock == <<nkeys, last, hist, heal, observe, w, execVars, planVars,
                cacheVars, pdf_text, arrival, combined, truncated,
                afterAsmVars>>

\* a thread calls get_next_client, report_error(k) or report_success(k)
L_Call(t) ==
    /\ locking.th[t].pc = "idle"
    /\ locking.calls < MaxLockCalls
    /\ \E op \in {"get", "error", "success"}, k \in Keys :
          /\ op = "get" => k = 0
          /\ locking' = [locking EXCEPT
                            !.calls = @ + 1,
                            !.th[t] = [OutsideLock EXCEPT
                                          !.pc = "acquire",
                                          !.op = op,
                                          !.key = IF op = "get" THEN NoKey
                                                  ELSE k]]
    /\ UNCHANGED rot
    /\ UNCHANGED besideLock

\* lines 61, 101, 111: with self.lock
L_Acquire(t) ==
    /\ locking.th[t].pc = "acquire"
    /\ LockFree(locking.holder)
    /\ locking' = [locking EXCEPT !.holder = t, !.th[t].pc = "read"]
    /\ UNCHANGED rot
    /\ UNCHANGED besideLock

\* the method reads the fields it works on: the cursor, error_count and
\* blacklisted, and the counter it is going to increment
L_Read(t) ==
    /\ locking.th[t].pc = "read"
    /\ LET me  == locking.th[t]
           key == IF me.op = "get" THEN GetNextClient(rot, nkeys).key
                  ELSE me.key
       IN  locking' = [locking EXCEPT
                          !.th[t].pc = "write",
                          !.th[t].key = key,
                          !.th[t].seen_rot = rot,
                          !.th[t].seen_count =
                              IF me.op = "get" THEN locking.usage_count[key]
                              ELSE locking.success_count[key]]
    /\ UNCHANGED rot
    /\ UNCHANGED besideLock

\* the method stores what it computed from the fields it read: lines 72-73
\* and 88-92 (get_next_client), 102-106 (report_error), 113-121
\* (report_success); serial is the pool after the same methods executed one
\* after the other
L_Write(t) ==
    /\ locking.th[t].pc = "write"
    /\ LET me == locking.th[t]
           Apply(p) == IF me.op = "get" THEN GetNextClient(p, nkeys).rot
                       ELSE IF me.op = "error" THEN ReportError(p, me.key)
                       ELSE ReportSuccess(p, me.key)
       IN  /\ rot' = Apply(me.seen_rot)
           /\ locking' = [locking EXCEPT
                             !.th[t].pc = "release",
                             !.serial = Apply(@),
                             !.usage_count =
                                 IF me.op = "get"
                                 THEN [@ EXCEPT ![me.key] = me.seen_count + 1]
                                 ELSE @,
                             !.success_count =
                                 IF me.op = "success"
                                 THEN [@ EXCEPT ![me.key] = me.seen_count + 1]
                                 ELSE @]
    /\ UNCHANGED besideLock

\* the with block is left and the method returns
L_Release(t) ==
    /\ locking.th[t].pc = "release"
    /\ LET me == locking.th[t]
       IN  locking' = [locking EXCEPT
                          !.holder = 0,
                          !.th[t] = OutsideLock,
                          !.returned_get =
                              IF me.op = "get" THEN @ + 1 ELSE @,
                          !.returned_success =
                              IF me.op = "success"
                              THEN [@ EXCEPT ![me.key] = @ + 1] ELSE @]
    /\ UNCHANGED rot
    /\ UNCHANGED besideLock

LockInit ==
    /\ nkeys \in 1 .. MaxKeys
    /\ rot = RotatorInit(nkeys)
    /\ HistIdle
    /\ w = <<>>
    /\ ExecIdle
    /\ PlanIdle
    /\ CacheIdle
    /\ pdf_text = NoText
    /\ arrival = <<>>
    /\ combined = NoCombined
    /\ truncated = NoTruncation
    /\ locking = LockingInit(nkeys)
    /\ WrapperIdle
    /\ PhaseIdle

LockNext ==
    \/ \E t \in LockThreads : L_Call(t)
    \/ \E t \in LockThreads : L_Acquire(t)
    \/ \E t \in LockThreads : L_Read(t)
    \/ \E t \in LockThreads : L_Write(t)
    \/ \E t \in LockThreads : L_Release(t)

\* several threads inside the methods of one rotator
SpecLock == LockInit /\ [][LockNext]_vars

\* the sum of the counters of the keys in S
RECURSIVE TotalCount(_, _)
TotalCount(f, S) ==
    IF S = {} THEN 0
    ELSE LET x == CHOOSE y \in S : TRUE
         IN  f[x] + TotalCount(f, S \ {x})

\* the threads that have stored the result of the method op on key k (any
\* key for NoKey) and have not returned yet
Stored(op, k) ==
    {t \in LockThreads :
        /\ locking.th[t].pc = "release"
        /\ locking.th[t].op = op
        /\ k # NoKey => locking.th[t].key = k}

\* C33: the methods of the rotator exclude one another and no update is
\* lost: at most one thread is inside a with block, the pool is what the
\* same methods give when executed one after the other, the usage counts
\* add up to the get_next_client calls that stored their result, each
\* success count is the number of report_success calls for the key, and
\* the cursor is an index of api_keys.
C33_PoolSerialized ==
    /\ Cardinality({t \in LockThreads :
                       locking.th[t].pc \in {"read", "write", "release"}})
          <= 1
    /\ rot = locking.serial
    /\ TotalCount(locking.usage_count, Keys)
          = locking.returned_get + Cardinality(Stored("get", NoKey))
    /\ \A k \in Keys :
          locking.success_count[k]
              = locking.returned_success[k]
                    + Cardinality(Stored("success", k))
    /\ rot.current_index \in 0 .. (nkeys - 1)

\* a thread has stored the result of get_next_client and still holds the
\* lock while another thread waits for it; a get_next_client and a
\* report_success have returned before
C33_Witness ==
    /\ locking.returned_get >= 1
    /\ \E k \in Keys : locking.returned_success[k] >= 1
    /\ \E t \in LockThreads :
          /\ locking.holder = t
          /\ locking.th[t].pc = "release"
          /\ locking.th[t].op = "get"
          /\ locking.usage_count[locking.th[t].key] >= 2
    /\ \E t \in LockThreads : locking.th[t].pc = "acquire"

\* ------------------------------------------------- clear and statistics
\* a clear that empties the tiers and leaves the statistics as they are
CacheClear_KeepStats ==
    /\ \E redis_ok \in (IF redis_on THEN BOOLEAN ELSE {TRUE}),
          left \in SUBSET (DOMAIN disk) :
          /\ memory_cache' = <<>>
          /\ redis_store' = IF redis_on /\ redis_ok THEN EmptyStore
                            ELSE redis_store
          /\ disk' = [k \in left |-> disk[k]]
    /\ stats' = stats
    /\ rt' = IF observe = "stats"
             THEN [NoRoundTrip EXCEPT !.stage = "cleared"]
             ELSE NoRoundTrip
    /\ UNCHANGED <<files, edits, backup, now, redis_on, config>>
    /\ UNCHANGED poolVars
    /\ UNCHANGED w
    /\ UNCHANGED execVars
    /\ UNCHANGED planVars
    /\ UNCHANGED otherVars

\* SmartCacheManager.clear, lines 496-538: the memory tier is emptied; the
\* keys of the remote tier are deleted unless the remote tier fails, the
\* cache directory is removed unless rmtree fails, which may leave any of
\* its files behind; both failures are caught. The statistics are reset.
CacheClear ==
    /\ \E redis_ok \in (IF redis_on THEN BOOLEAN ELSE {TRUE}),
          left \in SUBSET (DOMAIN disk) :
          /\ memory_cache' = <<>>
          /\ redis_store' = IF redis_on /\ redis_ok THEN EmptyStore
                            ELSE redis_store
          /\ disk' = [k \in left |-> disk[k]]
    /\ stats' = StatsZero
    /\ rt' = IF observe = "stats"
             THEN [NoRoundTrip EXCEPT !.stage = "cleared"]
             ELSE NoRoundTrip
    /\ UNCHANGED <<files, edits, backup, now, redis_on, config>>
    /\ UNCHANGED poolVars
    /\ UNCHANGED w
    /\ UNCHANGED execVars
    /\ UNCHANGED planVars
    /\ UNCHANGED otherVars

\* a manager with a remote tier and room for one or two entries in memory,
\* started on a cache directory that is empty or holds one file of an
\* earlier run
ClearInit ==
    /\ nkeys = 1
    /\ rot = RotatorInit(nkeys)
    /\ last = NoOp
    /\ hist = <<>>
    /\ heal = HealInit(nkeys)
    /\ observe = "stats"
    /\ w = <<>>
    /\ ExecIdle
    /\ PlanIdle
    /\ OtherIdle
    /\ files = [path \in Sources |-> SourceFile(HashThresholdMB)]
    /\ edits = 0
    /\ backup = files
    /\ now = 0
    /\ rt = NoRoundTrip
    /\ redis_on = TRUE
    /\ \E n \in 1 .. 2 : config = [SmallConfig EXCEPT !.max_memory_items = n]
    /\ memory_cache = <<>>
    /\ redis_store = EmptyStore
    /\ \E n \in 0 .. 1, size \in Contents :
          disk = FilledDisk(n, [i \in 1 .. n |-> size], [i \in 1 .. n |-> 0])
    /\ stats = StatsZero

ClearNext ==
    \/ \E path \in Sources, content \in Contents, prefix \in EvictSetPrefixes :
          CacheSet(path, content, prefix)
    \/ \E path \in Sources, prefix \in EvictSetPrefixes :
          CacheGet(path, prefix)
    \/ CacheClear
    \/ Tick

\* get, set and clear in any order while time passes
SpecClear == ClearInit /\ [][ClearNext]_vars

\* the step is a get call, and the key it looked up
GetStep == rt'.gets = rt.gets + 1
GetKeyLooked == GetCacheKey(FileHash(rt'.path), rt'.prefix)

\* C34: the memory tier never holds more than max_memory_items entries, and
\* a get that finds its entry in the remote tier or in the cache directory
\* puts it into memory only when fewer than max_memory_items entries are
\* there, and removes no other entry from memory.
C34_MemoryBounded ==
    /\ [](Len(memory_cache) <= max_memory_items)
    /\ [][(GetStep /\ rt'.tier \in {"redis", "disk"}) =>
             LET others == MemKeys(memory_cache) \ {GetKeyLooked}
             IN  /\ others \subseteq MemKeys(memory_cache')
                 /\ GetKeyLooked \in MemKeys(memory_cache') =>
                       /\ Cardinality(others) < max_memory_items
                       /\ MemKeys(memory_cache') = others \cup {GetKeyLooked}]_vars

\* a get found the file of an earlier run in the cache directory and put it
\* into a memory tier that held another entry and is full now
C34_Witness ==
    /\ rt.stage = "get"
    /\ rt.tier = "disk"
    /\ max_memory_items = 2
    /\ Len(memory_cache) = 2
    /\ GetCacheKey(FileHash(rt.path), rt.prefix) \in MemKeys(memory_cache)

\* C40: since the manager was made or last cleared, hits + misses is the
\* number of get calls and hits is the sum of the hits of the three tiers;
\* right after a clear every counter of the statistics is 0.
C40_StatsConsistent ==
    /\ stats.hits + stats.misses = rt.gets
    /\ stats.hits = stats.memory_hits + stats.redis_hits + stats.disk_hits
    /\ rt.stage = "cleared" => stats = StatsZero

\* a set wrote a cache file, a clear whose rmtree failed left it behind and
\* reset the statistics, and of the two get calls made since then one
\* missed and one was served from that file
C40_Witness ==
    /\ stats.files_cached = 0
    /\ GetCacheKey(FileHash(1), "") \in DOMAIN disk
    /\ rt.gets = 2
    /\ stats.misses = 1
    /\ stats.disk_hits = 1

\* ------------------------------------- process_single_file_enhanced
\* what the worker holds as content, as the cache stores it: the text of
\* the file, or the string _extract_pdf_direct_transfer returns instead of
\* raising when its attempts failed (line 1815)
ExtractedText == 2
FailureMarker == 1
\* line 1860: the prefix of the file's cache key
EnhancedPrefix == "enhanced"

ContentKind(content) ==
    IF content = ExtractedText THEN "text" ELSE "fail_marker"

\* lines 1863-1866: the lookup returned something: it is used as content
PS_UseCached ==
    /\ w[1].pc = "lookup"
    /\ rt.stage \in {"get", "got"}
    /\ rt.result # NoContent
    /\ w' = [w EXCEPT ![1].pc = "format",
                      ![1].out = ContentKind(rt.result)]
    /\ UNCHANGED poolVars
    /\ UNCHANGED execVars
    /\ UNCHANGED outsideVars

\* lines 1867-1882: the lookup missed and the file is extracted:
\* _extract_pdf_with_priority_handling returns the text, a failure marker
\* or a blank string, or an exception escapes to the handler of line 1909
PS_Extract ==
    /\ w[1].pc = "lookup"
    /\ rt.stage \in {"get", "got"}
    /\ rt.result = NoContent
    /\ \E outcome \in {"text", "fail_marker", "blank", "error_msg"} :
          w' = [w EXCEPT ![1].pc = IF outcome \in {"text", "fail_marker"}
                                   THEN "store" ELSE "format",
                         ![1].out = outcome]
    /\ UNCHANGED poolVars
    /\ UNCHANGED execVars
    /\ UNCHANGED outsideVars

\* lines 1884-1886: content that is not blank is passed to cache set
PS_Store ==
    /\ w[1].pc = "store"
    /\ rt.stage \notin {"set", "set_failed"}
    /\ CacheSet(1, IF w[1].out = "text" THEN ExtractedText
                   ELSE FailureMarker, EnhancedPrefix)

\* lines 1888-1911: the content is formatted and returned; the next call
\* for the file is a later one
PS_Return ==
    /\ \/ w[1].pc = "format"
       \/ w[1].pc = "store" /\ rt.stage \in {"set", "set_failed"}
    /\ w' = [w EXCEPT ![1] = Thread("lookup")]
    /\ rt' = NoRoundTrip
    /\ UNCHANGED <<files, edits, backup, now, redis_on, config, memory_cache,
                   redis_store, disk, stats>>
    /\ UNCHANGED poolVars
    /\ UNCHANGED execVars
    /\ UNCHANGED planVars
    /\ UNCHANGED otherVars

\* lines 1863: the lookup of a call that has not looked yet
PS_Lookup ==
    /\ w[1].pc = "lookup"
    /\ rt.stage \notin {"get", "got"}
    /\ CacheGet(1, EnhancedPrefix)

StoreInit ==
    /\ nkeys = 1
    /\ rot = RotatorInit(nkeys)
    /\ HistIdle
    /\ w = <<Thread("lookup")>>
    /\ ExecIdle
    /\ PlanIdle
    /\ OtherIdle
    /\ files \in [Sources -> {SourceFile(size) : size \in FileSizes}]
    /\ redis_on \in BOOLEAN
    /\ config = SmallConfig
    /\ CacheEmpty

StoreNext ==
    \/ PS_Lookup
    \/ PS_UseCached
    \/ PS_Extract
    \/ PS_Store
    \/ PS_Return
    \/ Tick

\* one file is processed again and again while time passes
SpecStore == StoreInit /\ [][StoreNext]_vars

\* C35: no failure marker is passed to cache set, so no tier holds one and
\* no lookup returns one.
C35_NoMarkerCached ==
    /\ \A i \in 1 .. Len(memory_cache) :
          memory_cache[i].entry.content # FailureMarker
    /\ \A k \in DOMAIN disk : disk[k].entry.content # FailureMarker
    /\ \A k \in DOMAIN redis_store :
          redis_store[k].entry.content # FailureMarker
    /\ rt.stage \in {"set", "get", "got"} => rt.content # FailureMarker
    /\ rt.stage \in {"get", "got"} => rt.result # FailureMarker

\* a later call for the file, unchanged and within the age limit, was
\* handed the failure marker by the lookup and uses it as the content
C35_Witness ==
    /\ w[1].pc = "format"
    /\ w[1].out = "fail_marker"
    /\ rt.stage = "get"
    /\ rt.result = FailureMarker
    /\ rt.fresh

\* ----------------------------------- _extract_pdf_pages_concurrent ends
\* the ranges and the worker threads of a run that may have more tasks
\* than worker threads
JoinInit ==
    /\ nkeys \in 1 .. MaxExecKeys
    /\ rot = RotatorInit(nkeys)
    /\ HistIdle
    /\ PlanIdle
    /\ OtherIdle
    /\ CacheIdle
    /\ \E ntasks \in 1 .. (2 * MaxExecKeys + 1) :
          /\ page_ranges = SplitPdfPages(ntasks * MinChunkSize, MinChunkSize)
          /\ task_queue = [t \in 1 .. ntasks |-> t - 1]
          /\ unfinished = ntasks
          /\ exec_count = [t \in 0 .. (ntasks - 1) |-> 0]
          /\ w = [i \in 1 .. max_workers(ntasks, nkeys) |-> Thread("idle")]
    /\ results = <<>>
    /\ processed_tasks = {}
    /\ phase = "running"

\* a step of worker thread i
WorkerStep(i) ==
    /\ i \in DOMAIN w
    /\ \/ W_Get(i)
       \/ W_Exit(i)
       \/ W_Mark(i)
       \/ W_Store(i)
       \/ W_TaskDone(i)
       \/ RC_Acquire(i)
       \/ RC_Success(i)
       \/ RC_CallFails(i)
       \/ RC_ReportError(i)

\* one run of _extract_pdf_pages_concurrent in which every call returns:
\* a worker thread that can take a step takes it, and so does the
\* coordinator
SpecJoin ==
    /\ JoinInit
    /\ [][ExecNext]_vars
    /\ \A i \in 1 .. (2 * MaxExecKeys) : WF_vars(WorkerStep(i))
    /\ WF_vars(C_Join)

\* the tasks a worker has taken and not marked done
Held == {i \in DOMAIN w : w[i].task # NoTask}
\* join() has returned and every worker thread has ended on an empty queue
RunEnded ==
    /\ phase = "assembling"
    /\ unfinished = 0
    /\ task_queue = <<>>
    /\ \A i \in DOMAIN w : w[i].pc = "exited"

\* C36: the count of tasks not yet marked done is always the tasks in the
\* queue plus the tasks a worker holds, no task is in two places, and the
\* run ends: join() returns, every task has its entry in results, and
\* every worker thread has found the queue empty and ended.
C36_RunTerminates ==
    /\ [](/\ unfinished = Len(task_queue) + Cardinality(Held)
          /\ \A i, j \in Held : w[i].task = w[j].task => i = j
          /\ \A i \in Held : w[i].task \notin QueueSet
          /\ Cardinality(QueueSet) = Len(task_queue))
    /\ <>[](RunEnded /\ DOMAIN results = TaskIds)

\* three ranges on two worker threads: the run has ended and one thread
\* executed two of the tasks
C36_Witness ==
    /\ RunEnded
    /\ Len(page_ranges) = 3
    /\ Len(w) = 2
    /\ DOMAIN results = TaskIds
    /\ \A t \in TaskIds : exec_count[t] = 1

MaxCollectFiles == 4

\* lines 1837-1847: the worker threads of the call, by the class of its
\* files
FileWorkers(nfiles, n, file_type) ==
    IF file_type = "large" THEN Min2(Min2(nfiles, n * 2), 16)
    ELSE IF file_type = "medium" THEN Min2(Min2(nfiles, n * 2), 12)
    ELSE Min2(Min2(nfiles, n), 8)

\* lines 1918-1920: the files are submitted in the order of the list; a
\* free worker thread of the executor starts the next one
F_Run(i) ==
    /\ phase = "running"
    /\ w[i].pc = "idle"
    /\ task_queue # <<>>
    /\ w' = [w EXCEPT ![i] = [Thread("call") EXCEPT
                                 !.task = Head(task_queue)]]
    /\ task_queue' = Tail(task_queue)
    /\ UNCHANGED poolVars
    /\ UNCHANGED <<page_ranges, unfinished, results, processed_tasks,
                   exec_count, phase>>
    /\ UNCHANGED outsideVars

\* lines 1927-1935: process_single_file_enhanced returns, as_completed
\* hands out the future and the loop appends its result
F_Done(i) ==
    /\ phase = "running"
    /\ w[i].pc = "call"
    /\ arrival' = Append(arrival, w[i].task)
    /\ unfinished' = unfinished - 1
    /\ w' = [w EXCEPT ![i] = Thread("idle")]
    /\ UNCHANGED poolVars
    /\ UNCHANGED <<page_ranges, task_queue, results, processed_tasks,
                   exec_count, phase>>
    /\ UNCHANGED <<pdf_text, combined, truncated, locking>>
    /\ UNCHANGED planVars
    /\ UNCHANGED cacheVars
    /\ UNCHANGED afterAsmVars

\* line 1970: every future was handed out; results is returned, and the
\* wrapper extends contents by it (lines 939, 950, 968)
F_Return ==
    /\ phase = "running"
    /\ unfinished = 0
    /\ phase' = "returned"
    /\ UNCHANGED poolVars
    /\ UNCHANGED <<w, page_ranges, task_queue, unfinished, results,
                   processed_tasks, exec_count>>
    /\ UNCHANGED outsideVars

\* a call with the files of one class, sorted by size, largest first; the
\* small files are processed this way only when there are more than 3 of
\* them and more than 2 credentials (line 964)
CollectInit ==
    /\ nkeys \in 1 .. MaxKeys
    /\ rot = RotatorInit(nkeys)
    /\ HistIdle
    /\ PlanIdle
    /\ OtherIdle
    /\ CacheIdle
    /\ page_ranges = <<>>
    /\ results = <<>>
    /\ processed_tasks = {}
    /\ exec_count = <<>>
    /\ phase = "running"
    /\ \E nfiles \in 1 .. MaxCollectFiles,
          file_type \in {"large", "medium", "small"} :
          /\ file_type = "small" => nfiles > 3 /\ nkeys > 2
          /\ task_queue = [t \in 1 .. nfiles |-> t - 1]
          /\ unfinished = nfiles
          /\ w = [i \in 1 .. FileWorkers(nfiles, nkeys, file_type) |->
                    Thread("idle")]

CollectNext ==
    \/ \E i \in DOMAIN w : F_Run(i)
    \/ \E i \in DOMAIN w : F_Done(i)
    \/ F_Return

\* one call of _process_files_with_enhanced_concurrency, no timeout
SpecCollect == CollectInit /\ [][CollectNext]_vars

\* C39: the sections of the files are returned in the order in which the
\* files were submitted, whatever the order in which their workers end.
C39_SubmittedOrder ==
    phase = "returned" =>
        \A j \in 1 .. Len(arrival) : arrival[j] = j - 1

\* two files on two worker threads: the second file's worker ended first
\* and its section is returned in front of the first file's
C39_Witness ==
    /\ phase = "returned"
    /\ Len(w) = 2
    /\ arrival = <<1, 0>>

====
